---- MODULE Spec2Model ----
(***************************************************************************)
(* Module side of the PAM binding: the module transaction invoker           *)
(* (InvokeHandler), the opaque module data store (SetData / GetData over    *)
(* the mock native table) and the release of its cgo handles.               *)
(* Application side: Start / StartConfDir, the operations of a Transaction, *)
(* its status register and finalizer; the generated module entry points.    *)
(***************************************************************************)
EXTENDS Integers, Sequences, FiniteSets, TLC

\* ---------------------------------------------------------------- bounds
NumKeys == 2
NumValues == 2
MaxHandles == 3
MaxConv == 1
NumThreads == 2

Keys == 1..NumKeys
Values == 1..NumValues

\* ------------------------------------------------- native return codes
success == 0
ErrSystem == 4
ErrBuf == 5
ErrAuth == 7
ErrNoModuleData == 18
ErrIgnore == 25
ErrBadItem == 29
ErrAuthinfoUnavail == 9
ErrConv == 19
ErrAbort == 26
ErrConvAgain == 30
Incomplete == 31

\* conversation styles
PromptEchoOff == 1
PromptEchoOn == 2
ErrorMsg == 3
TextInfo == 4
BinaryPrompt == 7

\* PAM_MAX_NUM_MSG
maxNumMsg == 32
\* the byte that ends a C string
NUL == 0

\* the nil interface value / the zero cgo.Handle
NilData == 0
\* the PAM_SERVICE item
Service == 1
\* PAM_SILENT
Silent == 32768
\* the zero Transaction: no native handle, status 0, no cgo handle
NilTransaction == [state |-> "none", handle |-> 0, status |-> 0, c |-> 0]

VARIABLES
    moduleData,    \* mockModuleTransaction.moduleData: key -> handle, 0 = no entry
    handles,       \* the runtime/cgo handle table, indexed by handle
    cleanupCalls,  \* per handle, how often _go_pam_data_cleanup was called on it
    lastStatus,    \* transactionBase.lastStatus
    RetData,       \* mockModuleTransaction.RetData.Status
    service,       \* the value of the PAM "service" item
    finalized,     \* the mock's finalizer has run
    panicked,      \* a Go panic has unwound the program
    lastSet,       \* per key, the data of the latest SetData call and its outcome
    ConversationHandler, \* mockModuleTransaction.ConversationHandler
    mockUser,      \* the mock's Expectations.UserPrompt, RetData.User, .InteractiveUser
    transaction,   \* the application's Transaction: handle, status, c
    appHandles,    \* the runtime/cgo handle table of the application
    libpam,        \* the native framework: what it supports, the calls it got
    threads,       \* the goroutines sharing the Transaction, and their stores
    pamModuleHandler, \* the generated module's handler object is set
    lastOp         \* the latest call: its arguments, results and event trace

vars == <<moduleData, handles, cleanupCalls, lastStatus, RetData, service,
          finalized, panicked, lastSet, ConversationHandler, mockUser,
          transaction, appHandles, libpam, threads, pamModuleHandler, lastOp>>
\* the state of the application side and of the generated entry points
callerVars == <<transaction, appHandles, libpam, threads, pamModuleHandler>>
\* the state of the module transaction and of its mock
moduleVars == <<moduleData, handles, cleanupCalls, lastStatus, RetData, service,
               finalized, lastSet, ConversationHandler, mockUser>>

\* ------------------------------------------------------------ error values
\* An error is the pre-order walk of its chain: native codes and plain causes.
Code(c) == [k |-> "code", c |-> c, s |-> ""]
Cause(s) == [k |-> "cause", c |-> 0, s |-> s]

\* A returned error: the chain, and the service name when wrapped by
\* fmt.Errorf("%s failed: %w", service, err). NilErr is the nil error.
PlainErr(chain) == [service |-> "", err |-> chain]
NilErr == PlainErr(<<>>)
fmt_Errorf_failed(svc, chain) == [service |-> svc, err |-> chain]

\* errors.As(err, &pamErr): the first native code met walking the chain.
errors_As(chain) ==
    LET idx == {i \in 1..Len(chain) : chain[i].k = "code"}
    IN  IF idx = {} THEN [ok |-> FALSE, code |-> 0]
        ELSE [ok |-> TRUE,
              code |-> chain[CHOOSE i \in idx : \A j \in idx : i <= j].c]

\* errors.Is(err, Error(c)): some element of the chain equals the code c.
errors_Is(chain, c) == \E i \in 1..Len(chain) : chain[i] = Code(c)

\* The message of a returned error, as a list of text tokens.
Text(s) == [k |-> "text", c |-> 0, s |-> s]
Strerror(c) == [k |-> "strerror", c |-> c, s |-> ""]
ChainText(chain) ==
    [i \in 1..Len(chain) |->
        IF chain[i].k = "code" THEN Strerror(chain[i].c) ELSE Text(chain[i].s)]
ErrorText(e) ==
    IF e.service # ""
    THEN <<Text(e.service), Text(" failed: ")>> \o ChainText(e.err)
    ELSE ChainText(e.err)

\* ------------------------------------------------------------ cgo handles
NewHandle(hs, v) == Append(hs, [v |-> v, valid |-> TRUE])
HandleValid(hs, h) == h \in 1..Len(hs) /\ hs[h].valid
HandleDelete(hs, h) == [hs EXCEPT ![h] = [v |-> NilData, valid |-> FALSE]]
HandleValue(hs, h) == hs[h].v

Ev(e, h) == [e |-> e, h |-> h]

\* The machine a call runs on: the program state plus the call's out-values.
Machine ==
    [moduleData |-> moduleData, handles |-> handles,
     cleanupCalls |-> cleanupCalls, lastStatus |-> lastStatus,
     panicked |-> FALSE, events |-> <<>>,
     ret |-> 0, out |-> 0, value |-> NilData, str |-> "", err |-> NilErr,
     conv |-> [isNil |-> TRUE, conv |-> FALSE, appdata |-> [set |-> FALSE]],
     cMessages |-> 0, goMsgs |-> <<>>,
     cResponses |-> [array |-> 0, resp |-> <<>>],
     bufs |-> <<>>, sent |-> <<>>, asked |-> <<>>,
     responses |-> <<>>, text |-> <<>>,
     native |-> [use |-> FALSE, status |-> success]]

\* transactionBase.handlePamStatus: record the code, return it as an error
\* unless it is the success code.
handlePamStatus(m, cStatus) ==
    [m EXCEPT !.lastStatus = cStatus,
              !.events = Append(@, Ev("store", cStatus)),
              !.err = IF cStatus # success THEN PlainErr(<<Code(cStatus)>>)
                      ELSE NilErr]

\* _go_pam_data_cleanup: cgo.Handle(handle).Delete(), which panics on a
\* handle that is not (or no longer) in the table.
go_pam_data_cleanup(m, handle) ==
    LET called == [m EXCEPT !.cleanupCalls[handle] = @ + 1,
                            !.events = Append(@, Ev("cleanup", handle))]
    IN  IF HandleValid(m.handles, handle)
        THEN [called EXCEPT !.handles = HandleDelete(@, handle)]
        ELSE [called EXCEPT !.panicked = TRUE]

\* setData that leaves an existing entry alone instead of replacing it.
mock_setData_keepFirst(m, key, handle) ==
    IF m.moduleData[key] # 0 THEN [m EXCEPT !.ret = RetData]
    ELSE IF handle # 0
    THEN [m EXCEPT !.moduleData[key] = handle,
                   !.events = Append(@, Ev("install", handle)),
                   !.ret = RetData]
    ELSE [m EXCEPT !.ret = RetData]

\* setData that installs the new handle first and then runs the cleanup hook
\* on whatever the key holds.
mock_setData_cleanupAfter(m, key, handle) ==
    LET had == m.moduleData[key] # 0
        m1 == IF handle # 0
              THEN [m EXCEPT !.moduleData[key] = handle,
                             !.events = Append(@, Ev("install", handle))]
              ELSE m
        m2 == IF had THEN go_pam_data_cleanup(m1, m1.moduleData[key]) ELSE m1
    IN  IF m2.panicked THEN m2 ELSE [m2 EXCEPT !.ret = RetData]

\* mockModuleTransaction.setData
mock_setData(m, key, handle) ==
    LET m1 == IF m.moduleData[key] # 0
              THEN go_pam_data_cleanup(m, m.moduleData[key])
              ELSE m
        m2 == IF handle # 0
              THEN [m1 EXCEPT !.moduleData[key] = handle,
                              !.events = Append(@, Ev("install", handle))]
              ELSE m1
    IN  IF m1.panicked THEN m1 ELSE [m2 EXCEPT !.ret = RetData]

\* mockModuleTransaction.getData
mock_getData(m, key) ==
    [m EXCEPT !.out = m.moduleData[key], !.ret = RetData]

\* set_data of transaction.h, over pam_set_data: a call that fails stores
\* nothing and runs no cleanup hook; a call that succeeds runs the hook of
\* the entry it replaces and stores the handle, 0 for no data.
set_data(m, key, handle, cStatus) ==
    IF cStatus # success THEN [m EXCEPT !.ret = cStatus]
    ELSE LET stored(m1) ==
                 IF m1.panicked THEN m1
                 ELSE [m1 EXCEPT
                         !.moduleData[key] = handle,
                         !.events = IF handle # 0
                                    THEN Append(@, Ev("install", handle))
                                    ELSE @,
                         !.ret = success]
         IN  stored(IF m.moduleData[key] # 0
                    THEN go_pam_data_cleanup(m, m.moduleData[key])
                    ELSE m)

\* moduleTransaction.setData
moduleTransaction_setData(m, key, handle) ==
    set_data(m, key, handle, m.native.status)

\* iface.setData: the module transaction itself, or the mock of the tests
iface_setData(m, key, handle) ==
    IF m.native.use THEN moduleTransaction_setData(m, key, handle)
    ELSE mock_setData(m, key, handle)

\* moduleTransaction.setDataImpl
setDataImpl(m, key, data) ==
    LET handle == IF data # NilData THEN Len(m.handles) + 1 ELSE 0
        m1 == IF data # NilData
              THEN [m EXCEPT !.handles = NewHandle(@, data),
                             !.cleanupCalls = Append(@, 0),
                             !.events = Append(@, Ev("alloc", handle))]
              ELSE m
        m2 == iface_setData(m1, key, handle)
    IN  IF m2.panicked THEN m2 ELSE handlePamStatus(m2, m2.ret)

\* getDataImpl that returns the "no module data" error without recording it.
getDataImpl_noRecord(m, key) ==
    LET m1 == mock_getData(m, key)
        m2 == handlePamStatus(m1, m1.ret)
    IN  IF m2.err # NilErr THEN m2
        ELSE IF m1.out # 0
        THEN IF HandleValid(m2.handles, m1.out)
             THEN [m2 EXCEPT !.value = HandleValue(m2.handles, m1.out)]
             ELSE [m2 EXCEPT !.panicked = TRUE]
        ELSE [m2 EXCEPT !.err = PlainErr(<<Code(ErrNoModuleData)>>)]

\* getDataImpl that takes the value out of the store: the handle is deleted
\* once its value has been read.
getDataImpl_take(m, key) ==
    LET m1 == mock_getData(m, key)
        m2 == handlePamStatus(m1, m1.ret)
    IN  IF m2.err # NilErr THEN m2
        ELSE IF m1.out # 0
        THEN IF HandleValid(m2.handles, m1.out)
             THEN [m2 EXCEPT !.value = HandleValue(m2.handles, m1.out),
                             !.handles = HandleDelete(@, m1.out)]
             ELSE [m2 EXCEPT !.panicked = TRUE]
        ELSE handlePamStatus(m2, ErrNoModuleData)

\* moduleTransaction.getDataImpl
getDataImpl(m, key) ==
    LET m1 == mock_getData(m, key)
        m2 == handlePamStatus(m1, m1.ret)
    IN  IF m2.err # NilErr THEN m2
        ELSE IF m1.out # 0
        THEN IF HandleValid(m2.handles, m1.out)
             THEN [m2 EXCEPT !.value = HandleValue(m2.handles, m1.out)]
             ELSE [m2 EXCEPT !.panicked = TRUE]
        ELSE handlePamStatus(m2, ErrNoModuleData)

\* The finalizer set by newMockModuleTransaction: the cleanup hook on every
\* entry of moduleData, in the order the map iteration yields the keys.
RECURSIVE mock_finalizer(_, _)
mock_finalizer(m, order) ==
    IF order = <<>> \/ m.panicked THEN m
    ELSE mock_finalizer(go_pam_data_cleanup(m, m.moduleData[Head(order)]),
                        Tail(order))

\* GetItem as InvokeHandler calls it (the body of Transaction.GetItem): the
\* native status is recorded; a failed lookup yields the empty string.
GetItem(m, i, cStatus) ==
    [m EXCEPT !.lastStatus = cStatus,
              !.events = Append(@, Ev("GetItem", i)),
              !.str = IF cStatus = success /\ i = Service THEN service ELSE ""]

\* handler(m, flags, args): the handler runs, and each call it makes on the
\* transaction records that call's status.
RECURSIVE handlerCalls(_, _)
handlerCalls(m, calls) ==
    IF calls = <<>> THEN m
    ELSE handlerCalls([m EXCEPT !.lastStatus = Head(calls),
                                !.events = Append(@, Ev("store", Head(calls)))],
                      Tail(calls))
callHandler(m, handler) ==
    handlerCalls([m EXCEPT !.events = Append(@, Ev("handler", 0))],
                 handler.calls)

\* invoker that service-qualifies the "ignore" code like any other code.
invoker_noExempt(m, handler, cStatus) ==
    IF ~handler.set THEN [m EXCEPT !.err = PlainErr(<<Code(ErrIgnore)>>)]
    ELSE LET m0 == callHandler(m, handler)
             found == errors_As(handler.ret)
             err == IF found.ok THEN handler.ret ELSE <<Code(ErrSystem)>>
             m1 == GetItem(m0, Service, cStatus)
         IN  IF handler.ret = <<>> THEN [m0 EXCEPT !.err = NilErr]
             ELSE IF m1.str = ""
             THEN [m1 EXCEPT !.err = PlainErr(err)]
             ELSE [m1 EXCEPT !.err = fmt_Errorf_failed(m1.str, err)]

\* invoker that never service-qualifies.
invoker_noWrap(m, handler, cStatus) ==
    IF ~handler.set THEN [m EXCEPT !.err = PlainErr(<<Code(ErrIgnore)>>)]
    ELSE LET m0 == callHandler(m, handler)
             found == errors_As(handler.ret)
             err == IF found.ok THEN handler.ret ELSE <<Code(ErrSystem)>>
             m1 == GetItem(m0, Service, cStatus)
         IN  IF handler.ret = <<>> THEN [m0 EXCEPT !.err = NilErr]
             ELSE [m1 EXCEPT !.err = PlainErr(err)]

\* invoker that passes an error without a native code on as it is.
invoker_keepGeneric(m, handler, cStatus) ==
    IF ~handler.set THEN [m EXCEPT !.err = PlainErr(<<Code(ErrIgnore)>>)]
    ELSE LET m0 == callHandler(m, handler)
             found == errors_As(handler.ret)
             pamErr == IF found.ok THEN found.code ELSE 0
             m1 == GetItem(m0, Service, cStatus)
         IN  IF handler.ret = <<>> THEN [m0 EXCEPT !.err = NilErr]
             ELSE IF pamErr = ErrIgnore \/ m1.str = ""
             THEN [m1 EXCEPT !.err = PlainErr(handler.ret)]
             ELSE [m1 EXCEPT !.err = fmt_Errorf_failed(m1.str, handler.ret)]

\* invoker that looks the service name up before testing the handler.
invoker_lookupFirst(m, handler, cStatus) ==
    LET m1 == GetItem(m, Service, cStatus)
    IN  IF ~handler.set THEN [m1 EXCEPT !.err = PlainErr(<<Code(ErrIgnore)>>)]
        ELSE LET m0 == callHandler(m1, handler)
                 found == errors_As(handler.ret)
                 err == IF found.ok THEN handler.ret ELSE <<Code(ErrSystem)>>
                 pamErr == IF found.ok THEN found.code ELSE 0
             IN  IF handler.ret = <<>> THEN [m0 EXCEPT !.err = NilErr]
                 ELSE IF pamErr = ErrIgnore \/ m1.str = ""
                 THEN [m0 EXCEPT !.err = PlainErr(err)]
                 ELSE [m0 EXCEPT !.err = fmt_Errorf_failed(m1.str, err)]

\* The closure "invoker" of moduleTransaction.InvokeHandler.
invoker(m, handler, cStatus) ==
    IF ~handler.set THEN [m EXCEPT !.err = PlainErr(<<Code(ErrIgnore)>>)]
    ELSE LET m0 == callHandler(m, handler)
             found == errors_As(handler.ret)
             err == IF found.ok THEN handler.ret ELSE <<Code(ErrSystem)>>
             pamErr == IF found.ok THEN found.code ELSE 0
             m1 == GetItem(m0, Service, cStatus)
         IN  IF handler.ret = <<>> THEN [m0 EXCEPT !.err = NilErr]
             ELSE IF pamErr = ErrIgnore \/ m1.str = ""
             THEN [m1 EXCEPT !.err = PlainErr(err)]
             ELSE [m1 EXCEPT !.err = fmt_Errorf_failed(m1.str, err)]

\* InvokeHandler that leaves the register as the invocation left it.
InvokeHandler_noStore(m, handler, cStatus) ==
    LET m1 == invoker(m, handler, cStatus)
        err == IF errors_Is(m1.err.err, success) THEN NilErr ELSE m1.err
    IN  [m1 EXCEPT !.err = err]

\* moduleTransaction.InvokeHandler
InvokeHandler(m, handler, cStatus) ==
    LET m1 == invoker(m, handler, cStatus)
        err == IF errors_Is(m1.err.err, success) THEN NilErr ELSE m1.err
        found == errors_As(err.err)
        status == IF err # NilErr
                  THEN (IF found.ok THEN found.code ELSE ErrSystem)
                  ELSE 0
    IN  [m1 EXCEPT !.err = err, !.lastStatus = status,
                   !.events = Append(@, Ev("store", status))]

\* ------------------------------------------------------------ C strings
\* A Go string is a sequence of bytes; a native buffer holds bytes too.
\* C.CString copies the bytes and appends the terminator; C.GoString reads up
\* to the first terminator. A pointer is an index into bufs, 0 the null one.
CString(s) == s \o <<NUL>>
RECURSIVE GoString(_)
GoString(bytes) ==
    IF bytes = <<>> \/ Head(bytes) = NUL THEN <<>>
    ELSE <<Head(bytes)>> \o GoString(Tail(bytes))
malloc(m, kind, bytes) ==
    [m EXCEPT !.bufs = Append(@, [kind |-> kind, bytes |-> bytes, frees |-> 0])]
free(m, p) == IF p = 0 THEN m ELSE [m EXCEPT !.bufs[p].frees = @ + 1]
RECURSIVE freeAll(_, _)
freeAll(m, ps) == IF ps = <<>> THEN m ELSE freeAll(free(m, Head(ps)), Tail(ps))
Deref(m, p) == IF p = 0 THEN <<>> ELSE m.bufs[p].bytes

errors_New(text) == <<Cause(text)>>
\* fmt.Errorf("%w: <text>", Error(c))
fmt_Errorf_w(c, text) == <<Code(c), Cause(text)>>
\* errors.Join(Error(c), err)
errors_Join(c, chain) == <<Code(c)>> \o chain

\* ------------------------------------------------------------ conversation
NewStringConvRequest(style, prompt) ==
    [type |-> "StringConvRequest", style |-> style, prompt |-> prompt]
stringConvResponse(style, response) == [style |-> style, response |-> response]

\* mockConversationHandler.RespondPAM
RespondPAM(c, s, msg) ==
    LET expectedMsg == IF s \in DOMAIN c.ExpectedMessagesByStyle
                       THEN c.ExpectedMessagesByStyle[s]
                       ELSE c.ExpectedMessage
    IN  IF (expectedMsg # <<>> \/ c.CheckEmptyMessage) /\ msg # expectedMsg
        THEN [r |-> <<>>, err |-> fmt_Errorf_w(ErrConv, "unexpected prompt")]
        ELSE IF (c.ExpectedStyle # 0 \/ c.CheckZeroStyle) /\ s # c.ExpectedStyle
        THEN [r |-> <<>>, err |-> fmt_Errorf_w(ErrConv, "unexpected style")]
        ELSE IF s = PromptEchoOn
        THEN [r |-> IF c.User # <<>> THEN c.User ELSE c.PromptEchoOn,
              err |-> <<>>]
        ELSE IF s = PromptEchoOff THEN [r |-> c.PromptEchoOff, err |-> <<>>]
        ELSE IF s = TextInfo THEN [r |-> c.TextInfo, err |-> <<>>]
        ELSE IF s = ErrorMsg THEN [r |-> c.ErrorMsg, err |-> <<>>]
        ELSE IF c.IgnoreUnknownStyle
        THEN [r |-> c.ExpectedMessage, err |-> <<>>]
        ELSE [r |-> <<>>, err |-> fmt_Errorf_w(ErrConv, "unhandled style")]

\* What the handler was asked and what it answered.
Asked(s, msg, a) == [style |-> s, msg |-> msg, r |-> a.r, err |-> a.err]

\* cbPAMConv that answers every text prompt with the empty string.
cbPAMConv_noReply(m, s, msg, v) ==
    IF s = BinaryPrompt THEN [m EXCEPT !.out = 0, !.ret = ErrAuthinfoUnavail]
    ELSE LET reply(a) ==
                 LET m0 == [m EXCEPT !.asked =
                               Append(@, Asked(s, GoString(Deref(m, msg)), a))]
                     m1 == malloc(m0, "resp", CString(<<>>))
                 IN  IF a.err # <<>> THEN [m0 EXCEPT !.out = 0, !.ret = ErrConv]
                     ELSE [m1 EXCEPT !.out = Len(m1.bufs), !.ret = success]
         IN  reply(RespondPAM(v, s, GoString(Deref(m, msg))))

\* cbPAMConv that hands out the reply buffer along with the error code when
\* the handler fails on a text prompt.
cbPAMConv_bufferOnError(m, s, msg, v) ==
    IF v.binary /\ s = BinaryPrompt
    THEN LET m1 == malloc(m, "resp", v.binaryReply)
         IN  IF v.binaryErr THEN [m EXCEPT !.out = 0, !.ret = ErrConvAgain]
             ELSE [m1 EXCEPT !.out = Len(m1.bufs), !.ret = success]
    ELSE IF s = BinaryPrompt
    THEN [m EXCEPT !.out = 0, !.ret = ErrAuthinfoUnavail]
    ELSE LET reply(a) ==
                 LET m0 == [m EXCEPT !.asked =
                               Append(@, Asked(s, GoString(Deref(m, msg)), a))]
                     m1 == malloc(m0, "resp", CString(a.r))
                 IN  IF a.err # <<>>
                     THEN [m1 EXCEPT !.out = Len(m1.bufs), !.ret = ErrConv]
                     ELSE [m1 EXCEPT !.out = Len(m1.bufs), !.ret = success]
         IN  reply(RespondPAM(v, s, GoString(Deref(m, msg))))

\* cbPAMConv: v is cgo.Handle(c).Value(), the conversation handler.
cbPAMConv(m, s, msg, v) ==
    IF v.binary /\ s = BinaryPrompt
    THEN LET m1 == malloc(m, "resp", v.binaryReply)
         IN  IF v.binaryErr THEN [m EXCEPT !.out = 0, !.ret = ErrConvAgain]
             ELSE [m1 EXCEPT !.out = Len(m1.bufs), !.ret = success]
    ELSE IF s = BinaryPrompt
    THEN [m EXCEPT !.out = 0, !.ret = ErrAuthinfoUnavail]
    ELSE LET reply(a) ==
                 LET m0 == [m EXCEPT !.asked =
                               Append(@, Asked(s, GoString(Deref(m, msg)), a))]
                     m1 == malloc(m0, "resp", CString(a.r))
                 IN  IF a.err # <<>> THEN [m0 EXCEPT !.out = 0, !.ret = ErrConv]
                     ELSE [m1 EXCEPT !.out = Len(m1.bufs), !.ret = success]
         IN  reply(RespondPAM(v, s, GoString(Deref(m, msg))))

\* The conversation function init_pam_conv registers: it answers the messages
\* one by one through cbPAMConv and, when one fails, releases what it has
\* allocated and returns the "conversation error" code with no responses.
RECURSIVE cb_pam_conv(_, _, _, _)
cb_pam_conv(m, messages, appdata, resps) ==
    IF Len(resps) = Len(messages)
    THEN [m EXCEPT !.cResponses.resp = resps, !.ret = success]
    ELSE LET msg == messages[Len(resps) + 1]
             answered(m1) ==
                 IF m1.ret # success
                 THEN [freeAll(m1, resps \o <<m1.cResponses.array>>) EXCEPT
                          !.cResponses = [array |-> 0, resp |-> <<>>],
                          !.ret = ErrConv]
                 ELSE cb_pam_conv(m1, messages, appdata, Append(resps, m1.out))
         IN  answered(cbPAMConv(m, msg.msg_style, msg.msg, appdata))

\* start_pam_conv: one call of conv->conv with the whole array; noMemory is
\* the native side failing to allocate the response array.
start_pam_conv(m, conv, nMsg, messages, noMemory) ==
    LET m0 == [m EXCEPT
                  !.events = Append(@, Ev("startConv", nMsg)),
                  !.sent = Append(@, [i \in 1..nMsg |->
                              [msg_style |-> messages[i].msg_style,
                               msg |-> Deref(m, messages[i].msg)]])]
        m1 == malloc(m0, "cResponses", <<>>)
    IN  IF noMemory
        THEN [m0 EXCEPT !.cResponses = [array |-> 0, resp |-> <<>>],
                        !.ret = ErrBuf]
        ELSE cb_pam_conv([m1 EXCEPT !.cResponses.array = Len(m1.bufs)],
                         messages, conv.appdata, <<>>)

\* mockModuleTransaction.getConv
mock_getConv(m) ==
    LET m0 == [m EXCEPT !.events = Append(@, Ev("getConv", 0))]
    IN  IF ConversationHandler.set
        THEN [m0 EXCEPT !.conv = [isNil |-> FALSE, conv |-> TRUE,
                                  appdata |-> ConversationHandler],
                        !.err = NilErr]
        ELSE IF RetData # success
        THEN [m0 EXCEPT !.err = PlainErr(<<Code(RetData)>>)]
        ELSE [m0 EXCEPT !.err = NilErr]

TextStyles == {PromptEchoOff, PromptEchoOn, ErrorMsg, TextInfo}
Min(S) == CHOOSE x \in S : \A y \in S : x <= y

\* The argument checks that accept a batch of any length but the empty one.
convArgsError_noLimit(requests) ==
    IF Len(requests) = 0 THEN errors_New("no requests defined")
    ELSE <<>>

\* startConvMultiImpl, the checks on the number of requests.
convArgsError(requests) ==
    IF Len(requests) = 0 THEN errors_New("no requests defined")
    ELSE IF Len(requests) > maxNumMsg THEN errors_New("too many requests")
    ELSE <<>>

\* Message building that hands the prompts over in reverse order.
convBuildMessages_reversed(m, requests) ==
    LET n == Len(requests)
        m1 == malloc(m, "cMessages", <<>>)
        cMessages == Len(m1.bufs)
        RECURSIVE prompts(_, _)
        prompts(mm, i) ==
            IF i > n THEN mm
            ELSE prompts(malloc(mm, "prompt", CString(requests[n + 1 - i].prompt)),
                         i + 1)
    IN  [prompts(m1, 1) EXCEPT
            !.err = NilErr,
            !.cMessages = cMessages,
            !.goMsgs = [i \in 1..n |->
                          [msg_style |-> requests[i].style,
                           msg |-> cMessages + i]]]

\* startConvMultiImpl, the building of the native message array: one buffer
\* for the array, one C string per prompt, up to the first request that is
\* not a StringConvRequest.
convBuildMessages(m, requests) ==
    LET bad == {i \in 1..Len(requests) : requests[i].type # "StringConvRequest"}
        n == IF bad = {} THEN Len(requests) ELSE Min(bad) - 1
        m1 == malloc(m, "cMessages", <<>>)
        cMessages == Len(m1.bufs)
        RECURSIVE prompts(_, _)
        prompts(mm, i) ==
            IF i > n THEN mm
            ELSE prompts(malloc(mm, "prompt", CString(requests[i].prompt)),
                         i + 1)
    IN  [prompts(m1, 1) EXCEPT
            !.err = IF bad = {} THEN NilErr
                    ELSE PlainErr(errors_New("unsupported conversation type")),
            !.cMessages = cMessages,
            !.goMsgs = [i \in 1..n |->
                          [msg_style |-> requests[i].style,
                           msg |-> cMessages + i]]]

\* The deferred release of the message array and of the prompts.
convFreeMessages(m) ==
    freeAll(m, [i \in 1..Len(m.goMsgs) |-> m.goMsgs[i].msg] \o <<m.cMessages>>)

\* A release of the response array that leaves the responses allocated.
convFreeResponses_arrayOnly(m) ==
    free(m, m.cResponses.array)

\* The deferred release of every response and of the response array.
convFreeResponses(m) ==
    freeAll(m, m.cResponses.resp \o <<m.cResponses.array>>)

\* A walk that returns the responses converted before an unsupported style.
convWalk_partial(m, requests) ==
    LET bad == {i \in 1..Len(requests) : requests[i].style \notin TextStyles}
        n == IF bad = {} THEN Len(requests) ELSE Min(bad) - 1
    IN  [m EXCEPT
            !.responses = [i \in 1..n |->
                stringConvResponse(requests[i].style,
                                   GoString(Deref(m, m.cResponses.resp[i])))],
            !.err = IF bad = {} THEN NilErr
                    ELSE PlainErr(errors_New("unsupported conversation type"))]

\* A walk that drops the last response.
convWalk_short(m, requests) ==
    LET bad == {i \in 1..Len(requests) : requests[i].style \notin TextStyles}
    IN  IF bad # {}
        THEN [m EXCEPT !.responses = <<>>,
                 !.err = PlainErr(errors_New("unsupported conversation type"))]
        ELSE [m EXCEPT
                 !.responses = [i \in 1..(Len(requests) - 1) |->
                     stringConvResponse(requests[i].style,
                                        GoString(Deref(m, m.cResponses.resp[i])))],
                 !.err = NilErr]

\* startConvMultiImpl, the walk over the native responses.
convWalk(m, requests) ==
    LET bad == {i \in 1..Len(requests) : requests[i].style \notin TextStyles}
    IN  IF bad # {}
        THEN [m EXCEPT !.responses = <<>>,
                 !.err = PlainErr(errors_New("unsupported conversation type"))]
        ELSE [m EXCEPT
                 !.responses = [i \in 1..Len(requests) |->
                     stringConvResponse(requests[i].style,
                                        GoString(Deref(m, m.cResponses.resp[i])))],
                 !.err = NilErr]

\* A deferred function that classifies an error without a code as a system
\* error.
convDeferred_system(m) ==
    IF m.err = NilErr THEN [handlePamStatus(m, success) EXCEPT !.err = NilErr]
    ELSE LET found == errors_As(m.err.err)
             err == IF found.ok THEN m.err
                    ELSE PlainErr(errors_Join(ErrSystem, m.err.err))
             pamErr == IF found.ok THEN found.code ELSE ErrSystem
         IN  [handlePamStatus(m, pamErr) EXCEPT !.err = err]

\* A deferred function that returns an error without a code as it is.
convDeferred_noJoin(m) ==
    IF m.err = NilErr THEN [handlePamStatus(m, success) EXCEPT !.err = NilErr]
    ELSE LET found == errors_As(m.err.err)
             pamErr == IF found.ok THEN found.code ELSE ErrConv
         IN  [handlePamStatus(m, pamErr) EXCEPT !.err = m.err]

\* A deferred function that records successes only.
convDeferred_stale(m) ==
    IF m.err = NilErr THEN [handlePamStatus(m, success) EXCEPT !.err = NilErr]
    ELSE LET found == errors_As(m.err.err)
         IN  [m EXCEPT !.err = IF found.ok THEN m.err
                               ELSE PlainErr(errors_Join(ErrConv, m.err.err))]

\* startConvMultiImpl, the deferred function that records the outcome.
convDeferred(m) ==
    IF m.err = NilErr THEN [handlePamStatus(m, success) EXCEPT !.err = NilErr]
    ELSE LET found == errors_As(m.err.err)
             err == IF found.ok THEN m.err
                    ELSE PlainErr(errors_Join(ErrConv, m.err.err))
             pamErr == IF found.ok THEN found.code ELSE ErrConv
         IN  [handlePamStatus(m, pamErr) EXCEPT !.err = err]

\* moduleTransaction.startConvMultiImpl on the mock
startConvMultiImpl(m, requests, noMemory) ==
    LET argErr == convArgsError(requests)
        called(m3) ==
            IF m3.ret # success
            THEN convFreeMessages([m3 EXCEPT !.err = PlainErr(<<Code(m3.ret)>>)])
            ELSE convFreeMessages(convFreeResponses(convWalk(m3, requests)))
        built(m2) ==
            IF m2.err # NilErr THEN convFreeMessages(m2)
            ELSE called(start_pam_conv(m2, m2.conv, Len(requests), m2.goMsgs,
                                       noMemory))
        looked(m1) ==
            IF m1.err # NilErr THEN m1
            ELSE IF m1.conv.isNil \/ ~m1.conv.conv
            THEN [m1 EXCEPT !.err =
                     PlainErr(errors_New("impossible to find conv handler"))]
            ELSE built(convBuildMessages(m1, requests))
    IN  convDeferred(
            IF argErr # <<>> THEN [m EXCEPT !.err = PlainErr(argErr)]
            ELSE looked(mock_getConv(m)))

\* moduleTransaction.startConvImpl
startConvImpl(m, req, noMemory) ==
    LET single(m1) ==
            IF m1.err # NilErr THEN [m1 EXCEPT !.responses = <<>>]
            ELSE IF Len(m1.responses) # 1
            THEN [m1 EXCEPT !.responses = <<>>,
                     !.err = PlainErr(fmt_Errorf_w(ErrConv,
                                                   "not enough values returned"))]
            ELSE m1
    IN  single(startConvMultiImpl(m, <<req>>, noMemory))

\* startStringConvImpl that sends a binary prompt on like any other.
startStringConvImpl_binaryThrough(m, style, prompt, noMemory) ==
    startConvImpl(m, NewStringConvRequest(style, prompt), noMemory)

\* moduleTransaction.startStringConvImpl
startStringConvImpl(m, style, prompt, noMemory) ==
    IF style = BinaryPrompt
    THEN [m EXCEPT !.err = PlainErr(fmt_Errorf_w(ErrConv,
                                       "binary style is not supported"))]
    ELSE startConvImpl(m, NewStringConvRequest(style, prompt), noMemory)

\* mockModuleTransaction.getUser; T.Fatalf ends the program.
mock_getUser(m, prompt) ==
    LET goPrompt == GoString(Deref(m, prompt))
        ask == mockUser.InteractiveUser
               \/ (mockUser.User = <<>> /\ ConversationHandler.set)
        return(m1, user) ==
            [malloc(m1, "cUser", CString(user)) EXCEPT
                !.out = Len(m1.bufs) + 1, !.ret = RetData]
        answered(a) ==
            LET found == errors_As(a.err)
                m1 == [m EXCEPT !.asked =
                          Append(@, Asked(PromptEchoOn, goPrompt, a))]
            IN  IF a.err # <<>>
                THEN [m1 EXCEPT !.out = 0,
                         !.ret = IF found.ok THEN found.code ELSE ErrAbort]
                ELSE return(m1, a.r)
    IN  IF goPrompt # mockUser.UserPrompt THEN [m EXCEPT !.panicked = TRUE]
        ELSE IF ask /\ ~ConversationHandler.set THEN [m EXCEPT !.panicked = TRUE]
        ELSE IF ask
        THEN answered(RespondPAM(ConversationHandler, PromptEchoOn, goPrompt))
        ELSE return(m, mockUser.User)

\* moduleTransaction.getUserImpl
getUserImpl(m, prompt) ==
    LET cPrompt == Len(m.bufs) + 1
        recorded(m3) ==
            IF m3.err # NilErr THEN free([m3 EXCEPT !.text = <<>>], cPrompt)
            ELSE free([m3 EXCEPT !.text = GoString(Deref(m3, m3.out))], cPrompt)
        got(m2) ==
            IF m2.panicked THEN free(m2, cPrompt)
            ELSE recorded(handlePamStatus(m2, m2.ret))
    IN  got(mock_getUser(malloc(m, "cPrompt", CString(prompt)), cPrompt))

\* ------------------------------------------------- application transaction
\* atomic.StoreInt32 / atomic.Int32.Store: the whole 32-bit word is replaced
\* (a C int and an int32 have the same width: int32(status) is status).
StoreInt32_torn(reg, val) == (reg \div 65536) * 65536 + (val % 65536)
StoreInt32(reg, val) == val
\* atomic.LoadInt32 / atomic.Int32.Load
LoadInt32(reg) == reg

\* The error values of the application API: nil, a *TransactionError (the
\* embedded error and a status) and the *Transaction itself, whose Status()
\* reads the register. The embedded error is errors.New(text) or the
\* Transaction.
NilError == [kind |-> "nil", cause |-> [k |-> "nil", s |-> ""], status |-> 0]
TransactionError(cause, status) ==
    [kind |-> "TransactionError", cause |-> cause, status |-> status]
TransactionAsError ==
    [kind |-> "Transaction", cause |-> [k |-> "nil", s |-> ""], status |-> 0]
NewError(text) == [k |-> "text", s |-> text]
TransactionCause == [k |-> "transaction", s |-> ""]
NilCause == [k |-> "nil", s |-> ""]

\* The machine an application call runs on.
CallerMachine ==
    [t |-> transaction, handles |-> appHandles, pam |-> libpam,
     events |-> <<>>, err |-> NilError, str |-> <<>>, panicked |-> FALSE]

CheckPamHasStartConfdir(m) == m.pam.confdir
CheckPamHasBinaryProtocol_always(m) == TRUE
CheckPamHasBinaryProtocol(m) == m.pam.binary
\* handler.(type) is BinaryConversationHandler
IsBinaryConversationHandler(handler) == handler.set /\ handler.binary

\* Transaction.Status
Transaction_Status(t) == LoadInt32(t.status)

\* The native framework runs one of its functions on the session: it may
\* call the conversation function, which enters cbPAMConv with the cgo
\* handle kept in the pam_conv; cgo.Handle.Value panics on a deleted handle.
RECURSIVE pam_conversation(_, _)
pam_conversation(m, nConv) ==
    IF nConv = 0 \/ m.panicked THEN m
    ELSE IF HandleValid(m.handles, m.t.c)
         THEN pam_conversation(
                  [m EXCEPT !.events = Append(@, Ev("cbPAMConv", m.t.c))],
                  nConv - 1)
         ELSE [m EXCEPT !.panicked = TRUE]
pam_call(m, fn, cStatus, nConv) ==
    LET ran(m1) == [m1 EXCEPT !.events = Append(@, Ev(fn, cStatus))]
    IN  ran(pam_conversation(m, nConv))

\* atomic.StoreInt32(&t.status, int32(status)), then the status as an error:
\* the transaction itself unless the call succeeded.
storeStatus_none(m, cStatus) ==
    [m EXCEPT !.err = IF cStatus # success THEN TransactionAsError
                      ELSE NilError]
storeStatus(m, cStatus) ==
    IF m.panicked THEN m
    ELSE [m EXCEPT !.t.status = StoreInt32(@, cStatus),
                   !.events = Append(@, Ev("store", cStatus)),
                   !.err = IF cStatus # success THEN TransactionAsError
                           ELSE NilError]

\* start: refuse a binary handler the platform cannot serve, else make the
\* cgo handle of the handler, set the finalizer and start the native session.
start(m, handler, confDir, cStatus) ==
    IF IsBinaryConversationHandler(handler) /\ ~CheckPamHasBinaryProtocol(m)
    THEN [m EXCEPT !.err = TransactionError(
              NewError("BinaryConversationHandler() was used, but it is not supported by this platform"),
              ErrSystem)]
    ELSE LET h == Len(m.handles) + 1
             fn == IF confDir = "" THEN "pam_start" ELSE "pam_start_confdir"
         IN  [m EXCEPT
                 !.handles = NewHandle(@, handler),
                 !.pam.starts = @ + 1,
                 !.t = [state |-> IF cStatus = success THEN "live" ELSE "failed",
                        handle |-> IF cStatus = success THEN 1 ELSE 0,
                        status |-> StoreInt32(0, cStatus),
                        c |-> h],
                 !.events = @ \o <<Ev("NewHandle", h), Ev("SetFinalizer", h),
                                   Ev(fn, cStatus), Ev("store", cStatus)>>,
                 !.err = IF cStatus # success
                         THEN TransactionError(TransactionCause, cStatus)
                         ELSE NilError]

\* Start
pam_Start(m, handler, cStatus) == start(m, handler, "", cStatus)

\* StartConfDir
pam_StartConfDir(m, handler, confDir, cStatus) ==
    IF ~CheckPamHasStartConfdir(m)
    THEN [m EXCEPT !.err = TransactionError(
              NewError("StartConfDir() was used, but the pam version on the system is not recent enough"),
              ErrSystem)]
    ELSE start(m, handler, confDir, cStatus)

\* transactionFinalizer: end the native session with the status the register
\* holds now, then delete the cgo handle (Delete panics on a deleted handle).
transactionFinalizer_startStatus(m) ==
    [m EXCEPT
        !.handles = HandleDelete(@, m.t.c),
        !.pam.ends = Append(@, [handle |-> m.t.handle, status |-> success]),
        !.t.state = "finalized",
        !.events = @ \o <<Ev("pam_end", success), Ev("Delete", m.t.c)>>]
transactionFinalizer_keepToken(m) ==
    [m EXCEPT
        !.pam.ends = Append(@, [handle |-> m.t.handle,
                                status |-> LoadInt32(m.t.status)]),
        !.t.state = "finalized",
        !.events = @ \o <<Ev("pam_end", LoadInt32(m.t.status))>>]
transactionFinalizer(m) ==
    IF ~HandleValid(m.handles, m.t.c)
    THEN [m EXCEPT
            !.pam.ends = Append(@, [handle |-> m.t.handle,
                                    status |-> LoadInt32(m.t.status)]),
            !.events = @ \o <<Ev("pam_end", LoadInt32(m.t.status))>>,
            !.panicked = TRUE]
    ELSE [m EXCEPT
            !.handles = HandleDelete(@, m.t.c),
            !.pam.ends = Append(@, [handle |-> m.t.handle,
                                    status |-> LoadInt32(m.t.status)]),
            !.t.state = "finalized",
            !.events = @ \o <<Ev("pam_end", LoadInt32(m.t.status)),
                              Ev("Delete", m.t.c)>>]

\* SetItem, PutEnv: the string goes to the native call as a C string.
Transaction_SetItem(m, item, cStatus) ==
    storeStatus(pam_call(m, "pam_set_item", cStatus, 0), cStatus)
Transaction_PutEnv(m, nameval, cStatus) ==
    storeStatus(pam_call(m, "pam_putenv", cStatus, 0), cStatus)
\* GetItem: the item the native call hands out, as a Go string.
Transaction_GetItem(m, item, cStatus) ==
    LET got(m1) == IF m1.err = NilError THEN [m1 EXCEPT !.str = GoString(item)]
                   ELSE m1
    IN  got(storeStatus(pam_call(m, "pam_get_item", cStatus, 0), cStatus))
\* Authenticate, SetCred, AcctMgmt, ChangeAuthTok, OpenSession, CloseSession
Transaction_Authenticate(m, cStatus, nConv) ==
    storeStatus(pam_call(m, "pam_authenticate", cStatus, nConv), cStatus)
Transaction_SetCred(m, cStatus, nConv) ==
    storeStatus(pam_call(m, "pam_setcred", cStatus, nConv), cStatus)
Transaction_AcctMgmt(m, cStatus, nConv) ==
    storeStatus(pam_call(m, "pam_acct_mgmt", cStatus, nConv), cStatus)
Transaction_ChangeAuthTok(m, cStatus, nConv) ==
    storeStatus(pam_call(m, "pam_chauthtok", cStatus, nConv), cStatus)
Transaction_OpenSession(m, cStatus, nConv) ==
    storeStatus(pam_call(m, "pam_open_session", cStatus, nConv), cStatus)
Transaction_CloseSession(m, cStatus, nConv) ==
    storeStatus(pam_call(m, "pam_close_session", cStatus, nConv), cStatus)
\* GetEnv: the value of the variable, "" when the native call yields NULL;
\* the register is left alone.
Transaction_GetEnv(m, found, value) ==
    LET got(m1) == IF found THEN [m1 EXCEPT !.str = GoString(value)] ELSE m1
    IN  got(pam_call(m, "pam_getenv", IF found THEN 1 ELSE 0, 0))
\* GetEnvList: a NULL list is a buffer error, stored and returned; a list
\* is returned without a store.
Transaction_GetEnvList(m, found) ==
    LET got(m1) == IF found THEN m1 ELSE storeStatus(m1, ErrBuf)
    IN  got(pam_call(m, "pam_getenvlist", IF found THEN 1 ELSE 0, 0))

\* ReturnType.Error: "%d: %s" of the code and its native message.
Num(c) == [k |-> "num", c |-> c, s |-> ""]
ReturnType_Error(rt) == <<Num(rt), Text(": "), Strerror(rt)>>
\* Transaction.Error: the text of the status the register holds now.
Transaction_Error(t) == ReturnType_Error(Transaction_Status(t))
\* errors.Join(errs...).Error(): the texts of the non-nil errors, one a line.
RECURSIVE errors_Join_Error(_)
errors_Join_Error(texts) ==
    IF texts = <<>> THEN <<>>
    ELSE IF Head(texts) = <<>> THEN errors_Join_Error(Tail(texts))
    ELSE IF errors_Join_Error(Tail(texts)) = <<>> THEN Head(texts)
    ELSE Head(texts) \o <<Text("\n")>> \o errors_Join_Error(Tail(texts))
\* TransactionError.Error: the embedded error joined with the status.
TransactionError_Error(e, t) ==
    LET cause == IF e.cause.k = "text" THEN <<Text(e.cause.s)>>
                 ELSE IF e.cause.k = "transaction" THEN Transaction_Error(t)
                 ELSE <<>>
    IN  errors_Join_Error(<<cause, ReturnType_Error(e.status)>>)
\* err.Status() of an error the application API returned
Error_Status(e, t) ==
    IF e.kind = "TransactionError" THEN e.status ELSE Transaction_Status(t)
\* err.Error() of an error the application API returned
Error_String(e, t) ==
    IF e.kind = "TransactionError" THEN TransactionError_Error(e, t)
    ELSE Transaction_Error(t)

\* --------------------------------------------------- generated entry points
\* flags & pam.Silent
SilentSet(flags) == (flags \div Silent) % 2 = 1
\* What a call of an entry point leaves: the code returned, the text written
\* to the standard error, the handler calls made.
EntryMachine == [ret |-> 0, stderr |-> <<>>, events |-> <<>>, panicked |-> FALSE]
\* handlePamCall: handlerSet is pamModuleHandler != nil, moduleFunc the
\* handler function and what it returns.
handlePamCall_verbose(m, handlerSet, moduleFunc, flags, name) ==
    IF ~handlerSet THEN [m EXCEPT !.ret = ErrNoModuleData]
    ELSE IF ~moduleFunc.set THEN [m EXCEPT !.ret = ErrIgnore]
    ELSE IF moduleFunc.ret = <<>>
         THEN [m EXCEPT !.ret = 0, !.events = Append(@, Ev(name, flags))]
    ELSE [m EXCEPT
            !.events = Append(@, Ev(name, flags)),
            !.stderr = <<Text("module returned error: ")>>
                       \o ChainText(moduleFunc.ret) \o <<Text("\n")>>,
            !.ret = IF errors_As(moduleFunc.ret).ok
                    THEN errors_As(moduleFunc.ret).code
                    ELSE ErrSystem]
handlePamCall(m, handlerSet, moduleFunc, flags, name) ==
    IF ~handlerSet THEN [m EXCEPT !.ret = ErrNoModuleData]
    ELSE IF ~moduleFunc.set THEN [m EXCEPT !.ret = ErrIgnore]
    ELSE IF moduleFunc.ret = <<>>
         THEN [m EXCEPT !.ret = 0, !.events = Append(@, Ev(name, flags))]
    ELSE [m EXCEPT
            !.events = Append(@, Ev(name, flags)),
            !.stderr = IF ~SilentSet(flags)
                       THEN <<Text("module returned error: ")>>
                            \o ChainText(moduleFunc.ret) \o <<Text("\n")>>
                       ELSE <<>>,
            !.ret = IF errors_As(moduleFunc.ret).ok
                    THEN errors_As(moduleFunc.ret).code
                    ELSE ErrSystem]
\* pam_sm_<name>: the method value pamModuleHandler.<Name> is evaluated
\* first, which panics on a nil interface value; it is never nil itself.
pam_sm(m, handlerSet, moduleFunc, flags, name) ==
    IF ~handlerSet THEN [m EXCEPT !.panicked = TRUE]
    ELSE handlePamCall(m, handlerSet, moduleFunc, flags, name)

\* ------------------------------------------------------------ inputs
\* a nil ConversationHandler
NoHandler == [set |-> FALSE]
\* the zero values of the mock's fields about the user
NoUser == [UserPrompt |-> <<>>, User |-> <<>>, InteractiveUser |-> FALSE]
HandlerCodes == {success, ErrAuth, ErrIgnore}
Atoms == {Code(c) : c \in HandlerCodes} \cup {Cause("not implemented")}
\* What a handler function may return: nil, one code or cause, or a pair
\* (a code joined with a cause, a cause wrapping a code, two codes).
HandlerErrors == {<<>>} \cup {<<a>> : a \in Atoms}
                 \cup {<<a, b>> : a \in Atoms, b \in Atoms}
\* The statuses the handler's own calls on the transaction record, in order.
HandlerCalls == {<<>>, <<ErrNoModuleData>>, <<ErrNoModuleData, success>>}
Handlers == {[set |-> FALSE, ret |-> <<>>, calls |-> <<>>]}
            \cup {[set |-> TRUE, ret |-> e, calls |-> c] :
                     e \in HandlerErrors, c \in HandlerCalls}
\* the handler functions of a module: what each returns when called
ModuleFuncs == [set : {TRUE}, ret : HandlerErrors, calls : {<<>>}]
\* the six entry points of a module
EntryPoints == {"Authenticate", "SetCred", "AcctMgmt", "OpenSession",
                "CloseSession", "ChangeAuthTok"}
\* flags with and without the silent bit
EntryFlags == {0, 1, Silent, Silent + 1}
NativeStatuses == {success, ErrBuf}
ItemStatuses == {success, ErrBadItem}
Services == {"", "login"}

\* Prompts and replies: byte strings, one of each with a NUL byte inside.
Prompts == {<<1>>, <<1, NUL, 2>>}
Styles == TextStyles \cup {BinaryPrompt}
PlainHandler ==
    [set |-> TRUE, binary |-> FALSE, binaryErr |-> FALSE, binaryReply |-> <<>>,
     User |-> <<>>, PromptEchoOn |-> <<3>>, PromptEchoOff |-> <<4, NUL, 4>>,
     TextInfo |-> <<>>, ErrorMsg |-> <<>>,
     ExpectedMessage |-> <<>>, ExpectedMessagesByStyle |-> <<>>,
     CheckEmptyMessage |-> FALSE, ExpectedStyle |-> 0,
     CheckZeroStyle |-> FALSE, IgnoreUnknownStyle |-> FALSE]
\* The conversation handlers a test registers: one that answers everything,
\* one that expects an echo-on prompt, one that also answers binary prompts.
ConvHandlers ==
    {PlainHandler,
     [PlainHandler EXCEPT !.User = <<5>>, !.ExpectedMessage = <<1>>,
                          !.ExpectedStyle = PromptEchoOn],
     [PlainHandler EXCEPT !.binary = TRUE, !.binaryReply = <<6>>,
                          !.IgnoreUnknownStyle = TRUE]}
MockUsers ==
    {[UserPrompt |-> <<1>>, User |-> <<5>>, InteractiveUser |-> FALSE],
     [UserPrompt |-> <<1>>, User |-> <<>>, InteractiveUser |-> TRUE]}
\* A ConvRequest of a type the package does not define.
OtherRequest == [type |-> "other", style |-> PromptEchoOn, prompt |-> <<>>]
Requests == {NewStringConvRequest(s, p) : s \in Styles, p \in Prompts}
            \cup {OtherRequest}
SecondRequests == {NewStringConvRequest(s, <<2>>) : s \in Styles}
                  \cup {OtherRequest}
\* The batches: empty, one request, two, three, the longest the native side
\* takes, and one request more than that.
Batches ==
    {<<>>} \cup {<<r>> : r \in Requests}
    \cup {<<r, q>> : r \in Requests, q \in SecondRequests}
    \cup {<<NewStringConvRequest(PromptEchoOn, <<1>>), q, r>> :
             q \in SecondRequests, r \in SecondRequests}
    \cup {[i \in 1..n |-> NewStringConvRequest(TextInfo, <<i>>)] :
             n \in {maxNumMsg, maxNumMsg + 1}}

\* The handlers an application starts a transaction with: none, one that
\* answers text only, one that also answers binary prompts.
AppHandlers ==
    {NoHandler, PlainHandler,
     [PlainHandler EXCEPT !.binary = TRUE, !.binaryReply = <<6>>]}
ConfDirs == {"", "/etc/pam.d"}
\* What a native call may return: success, a failure, a value that is no
\* PAM return code.
CallStatuses == {success, ErrAuth, -1}
Items == Prompts

\* The handlers the dispatcher is entered with: ones that answer, ones that
\* fail on a prompt or a style they do not expect, binary ones that answer
\* or fail.
DispatchHandlers ==
    {PlainHandler,
     [PlainHandler EXCEPT !.PromptEchoOff = <<>>],
     [PlainHandler EXCEPT !.ExpectedMessage = <<1>>],
     [PlainHandler EXCEPT !.ExpectedStyle = PromptEchoOn],
     [PlainHandler EXCEPT !.binary = TRUE, !.binaryReply = <<6>>],
     [PlainHandler EXCEPT !.binary = TRUE, !.binaryErr = TRUE,
                          !.ExpectedStyle = TextInfo]}
DispatchPrompts == Prompts \cup {<<>>, <<2>>}

\* The orders in which a map iteration may visit the keys holding an entry.
Orders(md) ==
    LET ks == {k \in Keys : md[k] # 0}
        n == Cardinality(ks)
    IN  {o \in [1..n -> ks] : \A i, j \in 1..n : i # j => o[i] # o[j]}

NoOp ==
    [op |-> "none", key |-> 0, data |-> NilData, value |-> NilData,
     err |-> NilErr, events |-> <<>>, old |-> 0, oldValid |-> FALSE,
     handler |-> [set |-> FALSE, ret |-> <<>>, calls |-> <<>>], status |-> 0,
     before |-> 0, requests |-> <<>>, responses |-> <<>>, bufs |-> <<>>,
     sent |-> <<>>, asked |-> <<>>, style |-> 0, prompt |-> <<>>,
     text |-> <<>>, ret |-> 0,
     terr |-> NilError, confDir |-> "", binary |-> FALSE, str |-> <<>>,
     nConv |-> 0, token |-> 0, found |-> FALSE, flags |-> 0, func |-> "",
     stderr |-> <<>>, again |-> FALSE, out |-> 0]

Op(name, m) ==
    [NoOp EXCEPT !.op = name, !.value = m.value, !.err = m.err,
                 !.events = m.events, !.responses = m.responses,
                 !.bufs = m.bufs, !.sent = m.sent, !.asked = m.asked,
                 !.text = m.text, !.ret = m.ret]

Commit(m) ==
    /\ moduleData' = m.moduleData
    /\ handles' = m.handles
    /\ cleanupCalls' = m.cleanupCalls
    /\ lastStatus' = m.lastStatus
    /\ panicked' = m.panicked

\* ------------------------------------------------------------ behaviour
\* No application transaction, no goroutines, no generated entry points.
NoCaller ==
    /\ transaction = NilTransaction
    /\ appHandles = <<>>
    /\ libpam = [confdir |-> TRUE, binary |-> TRUE, starts |-> 0, ends |-> <<>>]
    /\ threads = <<>>
    /\ pamModuleHandler = FALSE

Init ==
    /\ moduleData = [k \in Keys |-> 0]
    /\ handles = <<>>
    /\ cleanupCalls = <<>>
    /\ lastStatus = 0
    /\ RetData \in NativeStatuses
    /\ service \in Services
    /\ finalized = FALSE
    /\ panicked = FALSE
    /\ lastSet = [k \in Keys |-> [set |-> FALSE, data |-> NilData, ok |-> FALSE]]
    /\ ConversationHandler = NoHandler
    /\ mockUser = NoUser
    /\ NoCaller
    /\ lastOp = NoOp

Running == ~finalized /\ ~panicked

SetData ==
    \E key \in Keys, data \in Values \cup {NilData} :
        /\ Running
        /\ data # NilData => Len(handles) < MaxHandles
        /\ LET m == setDataImpl(Machine, key, data)
           IN  /\ Commit(m)
               /\ lastSet' = [lastSet EXCEPT ![key] =
                     [set |-> TRUE, data |-> data,
                      ok |-> ~m.panicked /\ m.err = NilErr]]
               /\ lastOp' = [Op("SetData", m) EXCEPT
                     !.key = key, !.data = data,
                     !.old = moduleData[key],
                     !.oldValid = HandleValid(handles, moduleData[key])]
        /\ UNCHANGED <<RetData, service, finalized, ConversationHandler, mockUser, callerVars>>

GetData ==
    \E key \in Keys :
        /\ Running
        /\ LET m == getDataImpl(Machine, key)
           IN  /\ Commit(m)
               /\ lastOp' = [Op("GetData", m) EXCEPT
                     !.key = key, !.old = moduleData[key],
                     !.oldValid = HandleValid(handles, moduleData[key]),
                     !.again = (lastOp.op = "GetData" /\ lastOp.key = key)]
        /\ UNCHANGED <<RetData, service, finalized, lastSet,
                       ConversationHandler, mockUser, callerVars>>

Invoke ==
    \E handler \in Handlers, cStatus \in ItemStatuses :
        /\ Running
        /\ LET m == InvokeHandler(Machine, handler, cStatus)
           IN  /\ Commit(m)
               /\ lastOp' = [Op("InvokeHandler", m) EXCEPT
                     !.handler = handler, !.status = cStatus,
                     !.before = lastStatus]
        /\ UNCHANGED <<RetData, service, finalized, lastSet,
                       ConversationHandler, mockUser, callerVars>>

StartConvMulti ==
    \E requests \in Batches, noMemory \in BOOLEAN :
        /\ Running
        /\ LET done(m) ==
                   /\ Commit(m)
                   /\ lastOp' = [Op("StartConvMulti", m) EXCEPT
                         !.requests = requests, !.before = lastStatus]
           IN  done(startConvMultiImpl(Machine, requests, noMemory))
        /\ UNCHANGED <<RetData, service, finalized, lastSet,
                       ConversationHandler, mockUser, callerVars>>

StartConv ==
    \E req \in Requests, noMemory \in BOOLEAN :
        /\ Running
        /\ LET done(m) ==
                   /\ Commit(m)
                   /\ lastOp' = [Op("StartConv", m) EXCEPT
                         !.requests = <<req>>,
                         !.style = req.style, !.prompt = req.prompt]
           IN  done(startConvImpl(Machine, req, noMemory))
        /\ UNCHANGED <<RetData, service, finalized, lastSet,
                       ConversationHandler, mockUser, callerVars>>

StartStringConv ==
    \E style \in Styles, prompt \in Prompts, noMemory \in BOOLEAN :
        /\ Running
        /\ LET done(m) ==
                   /\ Commit(m)
                   /\ lastOp' = [Op("StartStringConv", m) EXCEPT
                         !.style = style, !.prompt = prompt]
           IN  done(startStringConvImpl(Machine, style, prompt, noMemory))
        /\ UNCHANGED <<RetData, service, finalized, lastSet,
                       ConversationHandler, mockUser, callerVars>>

\* StartStringConvf: formatted is fmt.Sprintf(format, args...).
StartStringConvf ==
    \E style \in Styles, formatted \in Prompts, noMemory \in BOOLEAN :
        /\ Running
        /\ LET done(m) ==
                   /\ Commit(m)
                   /\ lastOp' = [Op("StartStringConvf", m) EXCEPT
                         !.style = style, !.prompt = formatted]
           IN  done(startStringConvImpl(Machine, style, formatted, noMemory))
        /\ UNCHANGED <<RetData, service, finalized, lastSet,
                       ConversationHandler, mockUser, callerVars>>

GetUser ==
    \E prompt \in Prompts \cup {<<>>} :
        /\ Running
        /\ LET done(m) ==
                   /\ Commit(m)
                   /\ lastOp' = [Op("GetUser", m) EXCEPT !.prompt = prompt]
           IN  done(getUserImpl(Machine, prompt))
        /\ UNCHANGED <<RetData, service, finalized, lastSet,
                       ConversationHandler, mockUser, callerVars>>

Finalize ==
    \E order \in Orders(moduleData) :
        /\ Running
        /\ LET m == mock_finalizer(Machine, order)
           IN  /\ Commit(m)
               /\ lastOp' = Op("finalizer", m)
        /\ finalized' = TRUE
        /\ UNCHANGED <<RetData, service, lastSet, ConversationHandler, mockUser, callerVars>>

Next == SetData \/ GetData \/ Invoke \/ Finalize
        \/ StartConvMulti \/ StartConv \/ StartStringConv \/ StartStringConvf
        \/ GetUser

\* The whole module transaction.
Spec == Init /\ [][Next]_vars

\* A module that only uses the data store.
NextData == SetData \/ GetData \/ Finalize
SpecData == Init /\ [][NextData]_vars

\* A module that is only invoked.
NextInvoke == Invoke
SpecInvoke == Init /\ [][NextInvoke]_vars

\* A module that converses: the mock is built with or without a conversation
\* handler and with one of the user configurations.
InitConv ==
    /\ moduleData = [k \in Keys |-> 0]
    /\ handles = <<>>
    /\ cleanupCalls = <<>>
    /\ lastStatus = 0
    /\ RetData \in NativeStatuses
    /\ service = ""
    /\ finalized = FALSE
    /\ panicked = FALSE
    /\ lastSet = [k \in Keys |-> [set |-> FALSE, data |-> NilData, ok |-> FALSE]]
    /\ ConversationHandler \in ConvHandlers \cup {NoHandler}
    /\ mockUser \in MockUsers
    /\ NoCaller
    /\ lastOp = NoOp
\* The caller is between two calls; Return is the caller taking the result
\* of the call that has just returned.
Idle == lastOp.op = "none"
Return ==
    /\ ~Idle
    /\ Running
    /\ lastOp' = NoOp
    /\ UNCHANGED <<moduleData, handles, cleanupCalls, lastStatus, RetData,
                   service, finalized, panicked, lastSet, ConversationHandler,
                   mockUser, callerVars>>
NextConv ==
    \/ Idle /\ StartConvMulti
    \/ Idle /\ StartConv
    \/ Idle /\ StartStringConv
    \/ Idle /\ StartStringConvf
    \/ Idle /\ GetUser
    \/ Return
SpecConv == InitConv /\ [][NextConv]_vars

\* A module that uses every operation, and stores one value at most.
InitModule ==
    /\ moduleData = [k \in Keys |-> 0]
    /\ handles = <<>>
    /\ cleanupCalls = <<>>
    /\ lastStatus = 0
    /\ RetData \in NativeStatuses
    /\ service = "login"
    /\ finalized = FALSE
    /\ panicked = FALSE
    /\ lastSet = [k \in Keys |-> [set |-> FALSE, data |-> NilData, ok |-> FALSE]]
    /\ ConversationHandler \in {NoHandler, PlainHandler}
    /\ mockUser \in MockUsers
    /\ NoCaller
    /\ lastOp = NoOp
NextModule ==
    \/ Idle /\ Invoke
    \/ Idle /\ handles = <<>> /\ SetData
    \/ Idle /\ GetData
    \/ Idle /\ GetUser
    \/ Idle /\ StartConv
    \/ Idle /\ StartConvMulti
    \/ Idle /\ StartStringConv
    \/ Idle /\ StartStringConvf
    \/ Return
SpecModule == InitModule /\ [][NextModule]_vars

\* ------------------------------------------------------------ dispatcher
\* The native framework calls the conversation function of a started
\* transaction: cbPAMConv is entered with a style, a message and the cgo
\* handle of the conversation handler.
CbPAMConv ==
    \E s \in Styles, msg \in DispatchPrompts :
        /\ transaction.state = "live"
        /\ HandleValid(appHandles, transaction.c)
        /\ ~panicked
        /\ LET done(m) ==
                   /\ panicked' = m.panicked
                   /\ lastOp' = [Op("cbPAMConv", m) EXCEPT
                         !.style = s, !.prompt = msg, !.out = m.out]
               called(m0) ==
                   done(cbPAMConv(m0, s, Len(m0.bufs),
                                  HandleValue(appHandles, transaction.c)))
           IN  called(malloc(Machine, "msg", CString(msg)))
        /\ UNCHANGED <<moduleVars, callerVars>>

\* A transaction started with one of the handlers.
InitDispatch ==
    /\ moduleData = [k \in Keys |-> 0]
    /\ handles = <<>>
    /\ cleanupCalls = <<>>
    /\ lastStatus = 0
    /\ RetData = success
    /\ service = ""
    /\ finalized = FALSE
    /\ panicked = FALSE
    /\ lastSet = [k \in Keys |-> [set |-> FALSE, data |-> NilData, ok |-> FALSE]]
    /\ ConversationHandler = NoHandler
    /\ mockUser = NoUser
    /\ transaction = [state |-> "live", handle |-> 1, status |-> success, c |-> 1]
    /\ \E handler \in DispatchHandlers : appHandles = NewHandle(<<>>, handler)
    /\ libpam = [confdir |-> TRUE, binary |-> TRUE, starts |-> 1, ends |-> <<>>]
    /\ threads = <<>>
    /\ pamModuleHandler = FALSE
    /\ lastOp = NoOp
NextDispatch ==
    \/ Idle /\ CbPAMConv
    \/ Return
SpecDispatch == InitDispatch /\ [][NextDispatch]_vars

\* ------------------------------------------------------------ native store
\* SetData on a module transaction of a loaded module: iface is the
\* transaction itself, moduleData stands for the data table of the session.
\* The module makes as many handles as it has keys, at most.
NativeSetData ==
    \E key \in Keys, data \in Values \cup {NilData}, cStatus \in NativeStatuses :
        /\ Running
        /\ data # NilData => Len(handles) < MaxHandles
        /\ LET done(m) ==
                   /\ Commit(m)
                   /\ lastSet' = [lastSet EXCEPT ![key] =
                         [set |-> TRUE, data |-> data,
                          ok |-> ~m.panicked /\ m.err = NilErr]]
                   /\ lastOp' = [Op("SetData", m) EXCEPT
                         !.key = key, !.data = data, !.status = cStatus,
                         !.old = moduleData[key],
                         !.oldValid = HandleValid(handles, moduleData[key])]
           IN  done(setDataImpl(
                   [Machine EXCEPT !.native = [use |-> TRUE, status |-> cStatus]],
                   key, data))
        /\ UNCHANGED <<RetData, service, finalized, ConversationHandler,
                       mockUser, callerVars>>
NextNative ==
    \/ Idle /\ Len(handles) < NumKeys /\ NativeSetData
    \/ Return
SpecNative == Init /\ [][NextNative]_vars

\* ------------------------------------------------------------ application
CallerOp(name, m) ==
    [NoOp EXCEPT !.op = name, !.terr = m.err, !.events = m.events,
                 !.str = m.str, !.before = transaction.status,
                 !.token = transaction.c]
CallerCommit(m) ==
    /\ transaction' = m.t
    /\ appHandles' = m.handles
    /\ libpam' = m.pam
    /\ panicked' = m.panicked
    /\ UNCHANGED <<moduleVars, threads, pamModuleHandler>>

Start ==
    \E handler \in AppHandlers, cStatus \in CallStatuses :
        /\ transaction.state = "none"
        /\ LET done(m) ==
                   /\ CallerCommit(m)
                   /\ lastOp' = [CallerOp("Start", m) EXCEPT
                         !.status = cStatus,
                         !.binary = IsBinaryConversationHandler(handler)]
           IN  done(pam_Start(CallerMachine, handler, cStatus))

StartConfDir ==
    \E handler \in AppHandlers, confDir \in ConfDirs, cStatus \in CallStatuses :
        /\ transaction.state = "none"
        /\ LET done(m) ==
                   /\ CallerCommit(m)
                   /\ lastOp' = [CallerOp("StartConfDir", m) EXCEPT
                         !.status = cStatus, !.confDir = confDir,
                         !.binary = IsBinaryConversationHandler(handler)]
           IN  done(pam_StartConfDir(CallerMachine, handler, confDir, cStatus))

Live == transaction.state = "live" /\ ~panicked

Authenticate ==
    \E cStatus \in CallStatuses, nConv \in 0..MaxConv :
        /\ Live
        /\ LET done(m) ==
                   /\ CallerCommit(m)
                   /\ lastOp' = [CallerOp("Authenticate", m) EXCEPT
                         !.status = cStatus, !.nConv = nConv]
           IN  done(Transaction_Authenticate(CallerMachine, cStatus, nConv))
SetCred ==
    \E cStatus \in CallStatuses, nConv \in 0..MaxConv :
        /\ Live
        /\ LET done(m) ==
                   /\ CallerCommit(m)
                   /\ lastOp' = [CallerOp("SetCred", m) EXCEPT
                         !.status = cStatus, !.nConv = nConv]
           IN  done(Transaction_SetCred(CallerMachine, cStatus, nConv))
AcctMgmt ==
    \E cStatus \in CallStatuses, nConv \in 0..MaxConv :
        /\ Live
        /\ LET done(m) ==
                   /\ CallerCommit(m)
                   /\ lastOp' = [CallerOp("AcctMgmt", m) EXCEPT
                         !.status = cStatus, !.nConv = nConv]
           IN  done(Transaction_AcctMgmt(CallerMachine, cStatus, nConv))
ChangeAuthTok ==
    \E cStatus \in CallStatuses, nConv \in 0..MaxConv :
        /\ Live
        /\ LET done(m) ==
                   /\ CallerCommit(m)
                   /\ lastOp' = [CallerOp("ChangeAuthTok", m) EXCEPT
                         !.status = cStatus, !.nConv = nConv]
           IN  done(Transaction_ChangeAuthTok(CallerMachine, cStatus, nConv))
OpenSession ==
    \E cStatus \in CallStatuses, nConv \in 0..MaxConv :
        /\ Live
        /\ LET done(m) ==
                   /\ CallerCommit(m)
                   /\ lastOp' = [CallerOp("OpenSession", m) EXCEPT
                         !.status = cStatus, !.nConv = nConv]
           IN  done(Transaction_OpenSession(CallerMachine, cStatus, nConv))
CloseSession ==
    \E cStatus \in CallStatuses, nConv \in 0..MaxConv :
        /\ Live
        /\ LET done(m) ==
                   /\ CallerCommit(m)
                   /\ lastOp' = [CallerOp("CloseSession", m) EXCEPT
                         !.status = cStatus, !.nConv = nConv]
           IN  done(Transaction_CloseSession(CallerMachine, cStatus, nConv))
SetItem ==
    \E item \in Items, cStatus \in CallStatuses :
        /\ Live
        /\ LET done(m) ==
                   /\ CallerCommit(m)
                   /\ lastOp' = [CallerOp("SetItem", m) EXCEPT
                         !.status = cStatus, !.prompt = item]
           IN  done(Transaction_SetItem(CallerMachine, item, cStatus))
AppGetItem ==
    \E item \in Items, cStatus \in CallStatuses :
        /\ Live
        /\ LET done(m) ==
                   /\ CallerCommit(m)
                   /\ lastOp' = [CallerOp("GetItem", m) EXCEPT
                         !.status = cStatus, !.prompt = item]
           IN  done(Transaction_GetItem(CallerMachine, item, cStatus))
PutEnv ==
    \E nameval \in Items, cStatus \in CallStatuses :
        /\ Live
        /\ LET done(m) ==
                   /\ CallerCommit(m)
                   /\ lastOp' = [CallerOp("PutEnv", m) EXCEPT
                         !.status = cStatus, !.prompt = nameval]
           IN  done(Transaction_PutEnv(CallerMachine, nameval, cStatus))
GetEnv ==
    \E found \in BOOLEAN, value \in Items :
        /\ Live
        /\ LET done(m) ==
                   /\ CallerCommit(m)
                   /\ lastOp' = [CallerOp("GetEnv", m) EXCEPT
                         !.found = found, !.prompt = value]
           IN  done(Transaction_GetEnv(CallerMachine, found, value))
GetEnvList ==
    \E found \in BOOLEAN :
        /\ Live
        /\ LET done(m) ==
                   /\ CallerCommit(m)
                   /\ lastOp' = [CallerOp("GetEnvList", m) EXCEPT
                         !.found = found,
                         !.status = IF found THEN success ELSE ErrBuf]
           IN  done(Transaction_GetEnvList(CallerMachine, found))

\* err.Error() on the error the latest call returned.
ErrorString ==
    /\ lastOp.terr # NilError
    /\ lastOp.text = <<>>
    /\ ~panicked
    /\ lastOp' = [lastOp EXCEPT !.text = Error_String(lastOp.terr, transaction)]
    /\ UNCHANGED <<moduleVars, callerVars, panicked>>

\* The garbage collector runs the finalizer once the application holds no
\* reference to the transaction, nor to an error that refers to it.
TransactionFinalizer ==
    /\ transaction.state \in {"live", "failed"}
    /\ ~panicked
    /\ LET done(m) ==
               /\ CallerCommit(m)
               /\ lastOp' = CallerOp("transactionFinalizer", m)
       IN  done(transactionFinalizer(CallerMachine))

\* An application on a platform with or without the two extensions.
InitCaller ==
    /\ moduleData = [k \in Keys |-> 0]
    /\ handles = <<>>
    /\ cleanupCalls = <<>>
    /\ lastStatus = 0
    /\ RetData = success
    /\ service = ""
    /\ finalized = FALSE
    /\ panicked = FALSE
    /\ lastSet = [k \in Keys |-> [set |-> FALSE, data |-> NilData, ok |-> FALSE]]
    /\ ConversationHandler = NoHandler
    /\ mockUser = NoUser
    /\ transaction = NilTransaction
    /\ appHandles = <<>>
    /\ \E confdir \in BOOLEAN, binary \in BOOLEAN :
           libpam = [confdir |-> confdir, binary |-> binary,
                     starts |-> 0, ends |-> <<>>]
    /\ threads = <<>>
    /\ pamModuleHandler = FALSE
    /\ lastOp = NoOp
NextCaller ==
    \/ Idle /\ Start
    \/ Idle /\ StartConfDir
    \/ Idle /\ Authenticate
    \/ Idle /\ SetCred
    \/ Idle /\ AcctMgmt
    \/ Idle /\ ChangeAuthTok
    \/ Idle /\ OpenSession
    \/ Idle /\ CloseSession
    \/ Idle /\ SetItem
    \/ Idle /\ AppGetItem
    \/ Idle /\ PutEnv
    \/ Idle /\ GetEnv
    \/ Idle /\ GetEnvList
    \/ Idle /\ TransactionFinalizer
    \/ ErrorString
    \/ Return
SpecCaller == InitCaller /\ [][NextCaller]_vars

\* ------------------------------------------------------------ goroutines
\* Several goroutines call Authenticate and Status on one Transaction. A
\* call is the native call, the store of its result, and the return; a
\* goroutine holds the error of its latest call until its next one returns.
Threads == 1..NumThreads
ThreadCall(th) ==
    \E cStatus \in CallStatuses :
        /\ threads.pc[th] = "ready"
        /\ threads' = [threads EXCEPT !.pc[th] = "called",
                                      !.status[th] = cStatus]
        /\ UNCHANGED <<moduleVars, panicked, transaction, appHandles, libpam,
                       pamModuleHandler, lastOp>>
ThreadStore(th) ==
    /\ threads.pc[th] = "called"
    /\ transaction' = [transaction EXCEPT
           !.status = StoreInt32(@, threads.status[th])]
    /\ threads' = [threads EXCEPT
           !.pc[th] = "stored",
           !.stored = @ \cup {threads.status[th]},
           !.last = threads.status[th]]
    /\ UNCHANGED <<moduleVars, panicked, appHandles, libpam,
                   pamModuleHandler, lastOp>>
ThreadReturn(th) ==
    /\ threads.pc[th] = "stored"
    /\ threads' = [threads EXCEPT
           !.pc[th] = "ready", !.status[th] = 0,
           !.held[th] = [err |-> IF threads.status[th] # success
                                 THEN TransactionAsError ELSE NilError,
                         code |-> threads.status[th]]]
    /\ UNCHANGED <<moduleVars, panicked, transaction, appHandles, libpam,
                   pamModuleHandler, lastOp>>
ThreadStatus(th) ==
    /\ threads.pc[th] = "ready"
    /\ threads' = [threads EXCEPT
           !.read = Transaction_Status(transaction), !.reads = TRUE]
    /\ UNCHANGED <<moduleVars, panicked, transaction, appHandles, libpam,
                   pamModuleHandler, lastOp>>

\* The Transaction a successful Start has returned, shared by the goroutines.
InitThreads ==
    /\ moduleData = [k \in Keys |-> 0]
    /\ handles = <<>>
    /\ cleanupCalls = <<>>
    /\ lastStatus = 0
    /\ RetData = success
    /\ service = ""
    /\ finalized = FALSE
    /\ panicked = FALSE
    /\ lastSet = [k \in Keys |-> [set |-> FALSE, data |-> NilData, ok |-> FALSE]]
    /\ ConversationHandler = NoHandler
    /\ mockUser = NoUser
    /\ transaction = [state |-> "live", handle |-> 1, status |-> success, c |-> 1]
    /\ appHandles = NewHandle(<<>>, PlainHandler)
    /\ libpam = [confdir |-> TRUE, binary |-> TRUE, starts |-> 1, ends |-> <<>>]
    /\ threads = [pc |-> [th \in Threads |-> "ready"],
                  status |-> [th \in Threads |-> 0],
                  held |-> [th \in Threads |->
                               [err |-> NilError, code |-> success]],
                  stored |-> {}, last |-> success,
                  read |-> success, reads |-> FALSE]
    /\ pamModuleHandler = FALSE
    /\ lastOp = NoOp
NextThreads ==
    \E th \in Threads :
        \/ ThreadCall(th)
        \/ ThreadStore(th)
        \/ ThreadReturn(th)
        \/ ThreadStatus(th)
SpecThreads == InitThreads /\ [][NextThreads]_vars

\* ------------------------------------------------------------ entry points
\* The native framework calls an entry point of the generated module.
PamSm ==
    \E name \in EntryPoints, moduleFunc \in ModuleFuncs, flags \in EntryFlags :
        /\ ~panicked
        /\ LET done(m) ==
                   /\ panicked' = m.panicked
                   /\ lastOp' = [NoOp EXCEPT
                         !.op = "pam_sm", !.func = name, !.flags = flags,
                         !.handler = moduleFunc, !.ret = m.ret,
                         !.events = m.events, !.stderr = m.stderr]
           IN  done(pam_sm(EntryMachine, pamModuleHandler, moduleFunc,
                           flags, name))
        /\ UNCHANGED <<moduleVars, callerVars>>

\* A generated module, with its handler object set or left nil.
InitEntry ==
    /\ moduleData = [k \in Keys |-> 0]
    /\ handles = <<>>
    /\ cleanupCalls = <<>>
    /\ lastStatus = 0
    /\ RetData = success
    /\ service = ""
    /\ finalized = FALSE
    /\ panicked = FALSE
    /\ lastSet = [k \in Keys |-> [set |-> FALSE, data |-> NilData, ok |-> FALSE]]
    /\ ConversationHandler = NoHandler
    /\ mockUser = NoUser
    /\ transaction = NilTransaction
    /\ appHandles = <<>>
    /\ libpam = [confdir |-> TRUE, binary |-> TRUE, starts |-> 0, ends |-> <<>>]
    /\ threads = <<>>
    /\ pamModuleHandler \in BOOLEAN
    /\ lastOp = NoOp
NextEntry ==
    \/ Idle /\ PamSm
    \/ Return
SpecEntry == InitEntry /\ [][NextEntry]_vars

\* ------------------------------------------------------------ properties
IsCall(name) == lastOp.op = name /\ ~panicked
EventCount(e, h) ==
    Cardinality({i \in 1..Len(lastOp.events) : lastOp.events[i] = Ev(e, h)})
HasEvent(e) == \E i \in 1..Len(lastOp.events) : lastOp.events[i].e = e
\* The service name the lookup of the latest InvokeHandler call yielded.
LookedUp == IF lastOp.status = success THEN service ELSE ""
HandlerFailed == lastOp.op = "InvokeHandler" /\ lastOp.handler.set
                 /\ lastOp.handler.ret # <<>>

\* C1: a GetData(k) that follows a successful SetData(k, v) with v not nil
\* returns v and no error, v being the value of the latest SetData on k
\* (so v2 after a replacement), whatever was done to the other keys.
C1_RoundTrip ==
    (lastOp.op = "GetData" /\ lastSet[lastOp.key].ok
        /\ lastSet[lastOp.key].data # NilData)
    => (~panicked /\ lastOp.err = NilErr
        /\ lastOp.value = lastSet[lastOp.key].data)

C1_Witness ==
    /\ IsCall("GetData") /\ lastOp.key = 1 /\ lastOp.value = 2
    /\ lastSet[1].ok /\ cleanupCalls = <<1, 0, 0>>
    /\ moduleData[1] = 3 /\ moduleData[2] = 2
    /\ HandleValue(handles, 2) = 1

\* C2: a SetData on a key that holds a live handle calls the cleanup hook on
\* that handle once, before the new handle is installed, and on no other
\* handle.
C2_ReplaceReleasesOldFirst ==
    (lastOp.op = "SetData" /\ lastOp.old # 0 /\ lastOp.oldValid)
    => /\ ~panicked
       /\ EventCount("cleanup", lastOp.old) = 1
       /\ cleanupCalls[lastOp.old] = 1
       /\ ~HandleValid(handles, lastOp.old)
       /\ \A i \in 1..Len(lastOp.events) :
            lastOp.events[i].e = "cleanup" => lastOp.events[i].h = lastOp.old
       /\ \A i, j \in 1..Len(lastOp.events) :
            (lastOp.events[i].e = "cleanup" /\ lastOp.events[j].e = "install")
            => i < j
       /\ lastOp.data # NilData =>
            (moduleData[lastOp.key] = Len(handles)
             /\ HandleValid(handles, moduleData[lastOp.key]))

C2_Witness ==
    /\ IsCall("SetData") /\ lastOp.old = 1 /\ lastOp.oldValid
    /\ lastOp.data # NilData /\ lastOp.key = 1
    /\ moduleData[2] = 2 /\ HandleValid(handles, 2)
    /\ moduleData[1] = 3

\* C3: after a successful SetData(k, nil) the key k has no installed handle,
\* the handle it held has been released once, and a GetData(k) fails with
\* the "no module data" code.
C3_SetNilClears ==
    /\ (lastOp.op = "SetData" /\ lastOp.data = NilData /\ lastOp.err = NilErr
            /\ lastOp.oldValid)
       => (moduleData[lastOp.key] = 0 /\ cleanupCalls[lastOp.old] = 1)
    /\ (lastOp.op = "GetData" /\ RetData = success
            /\ lastSet[lastOp.key].set /\ lastSet[lastOp.key].data = NilData)
       => (~panicked /\ lastOp.err = PlainErr(<<Code(ErrNoModuleData)>>))

\* C4: once the finalizer has run, every handle allocated for a stored value
\* has had the cleanup hook called on it exactly once.
C4_EveryHandleReleasedOnce ==
    finalized =>
        (~panicked /\ \A h \in 1..Len(handles) :
            cleanupCalls[h] = 1 /\ ~HandleValid(handles, h))

\* C5: a GetData on a key for which the native lookup succeeds and yields
\* the zero handle returns nil and the "no module data" error, and the
\* status register holds that code.
C5_GetAbsent ==
    (lastOp.op = "GetData" /\ RetData = success /\ lastOp.old = 0)
    => /\ ~panicked
       /\ lastOp.value = NilData
       /\ lastOp.err = PlainErr(<<Code(ErrNoModuleData)>>)
       /\ errors_As(lastOp.err.err) = [ok |-> TRUE, code |-> ErrNoModuleData]
       /\ lastStatus = ErrNoModuleData

C5_Witness ==
    /\ IsCall("GetData") /\ RetData = success /\ lastOp.old = 0
    /\ lastOp.key = 2 /\ moduleData[1] # 0
    /\ lastStatus = ErrNoModuleData

C7_Original ==
    (HandlerFailed /\ errors_As(lastOp.handler.ret).ok
        /\ errors_As(lastOp.handler.ret).code # ErrIgnore)
    => IF LookedUp # ""
       THEN /\ lastOp.err = fmt_Errorf_failed(LookedUp, lastOp.handler.ret)
            /\ ErrorText(lastOp.err)
                 = <<Text(LookedUp), Text(" failed: ")>>
                     \o ChainText(lastOp.handler.ret)
            /\ errors_As(lastOp.err.err) = errors_As(lastOp.handler.ret)
       ELSE lastOp.err = PlainErr(lastOp.handler.ret)

\* C7: the same, for a handler error whose chain does not hold the success
\* code; an error whose chain holds the success code becomes no error.
C7_CodeQualified ==
    /\ (HandlerFailed /\ errors_As(lastOp.handler.ret).ok
            /\ errors_As(lastOp.handler.ret).code # ErrIgnore
            /\ ~errors_Is(lastOp.handler.ret, success))
       => IF LookedUp # ""
          THEN /\ lastOp.err = fmt_Errorf_failed(LookedUp, lastOp.handler.ret)
               /\ ErrorText(lastOp.err)
                    = <<Text(LookedUp), Text(" failed: ")>>
                        \o ChainText(lastOp.handler.ret)
               /\ errors_As(lastOp.err.err) = errors_As(lastOp.handler.ret)
          ELSE lastOp.err = PlainErr(lastOp.handler.ret)
    /\ (HandlerFailed /\ errors_Is(lastOp.handler.ret, success))
       => (lastOp.err = NilErr /\ lastStatus = success)

C7_Witness ==
    /\ HandlerFailed /\ LookedUp = "login"
    /\ lastOp.handler.ret = <<Cause("not implemented"), Code(ErrAuth)>>
    /\ lastOp.err.service = "login"
    /\ lastStatus = ErrAuth

\* C8: a handler error without any native code in its chain comes back as
\* the "system error" code, prefixed with the service name when that is not
\* empty and bare when it is, and the status register holds "system error".
C8_GenericIsSystem ==
    (HandlerFailed /\ ~errors_As(lastOp.handler.ret).ok)
    => /\ errors_As(lastOp.err.err) = [ok |-> TRUE, code |-> ErrSystem]
       /\ lastOp.err.service = LookedUp
       /\ ErrorText(lastOp.err) =
            (IF LookedUp # ""
             THEN <<Text(LookedUp), Text(" failed: "), Strerror(ErrSystem)>>
             ELSE <<Strerror(ErrSystem)>>)
       /\ lastStatus = ErrSystem

C8_Witness ==
    /\ HandlerFailed /\ LookedUp = "login"
    /\ lastOp.handler.ret = <<Cause("not implemented")>>
    /\ lastOp.err.service = "login"
    /\ lastStatus = ErrSystem

\* C9: the error InvokeHandler returns has the error the handler returned in
\* its chain, whether or not that error carries a native code (stated for
\* the handler errors that InvokeHandler does not turn into success).
C9_ChainKept ==
    (HandlerFailed /\ ~errors_Is(lastOp.handler.ret, success))
    => lastOp.err.err = lastOp.handler.ret

\* C10: InvokeHandler with a nil handler returns the bare "ignore" code,
\* calls no handler, looks no service name up, and leaves the status
\* register holding "ignore".
C10_NilHandler ==
    (lastOp.op = "InvokeHandler" /\ ~lastOp.handler.set)
    => /\ lastOp.err = PlainErr(<<Code(ErrIgnore)>>)
       /\ ~HasEvent("handler")
       /\ ~HasEvent("GetItem")
       /\ lastStatus = ErrIgnore

C10_Witness ==
    /\ lastOp.op = "InvokeHandler" /\ ~lastOp.handler.set
    /\ lastOp.status = ErrBadItem /\ service = "login"
    /\ lastStatus = ErrIgnore

\* C11: whenever InvokeHandler returns, the status register holds the code of
\* that invocation's outcome: success when it returns no error, whatever an
\* earlier invocation recorded, else the native code of the returned error;
\* nothing the handler's own calls or the service-name lookup recorded during
\* the invocation is left in it.
C11_RegisterIsOutcome ==
    IsCall("InvokeHandler") =>
        lastStatus = (IF lastOp.err = NilErr THEN success
                      ELSE errors_As(lastOp.err.err).code)

\* An invocation that returns no error although the register held a failure
\* before it and the handler's own calls recorded another; and one that
\* returns a failure after a failed lookup and a handler call that succeeded.
C11_Witness ==
    /\ IsCall("InvokeHandler") /\ lastOp.err = NilErr /\ lastOp.handler.set
    /\ lastOp.before = ErrAuth
    /\ lastOp.handler.calls = <<ErrNoModuleData>>
    /\ lastStatus = success

C11_WitnessFailedLookup ==
    /\ IsCall("InvokeHandler") /\ lastOp.status = ErrBadItem
    /\ lastOp.handler.calls = <<ErrNoModuleData, success>>
    /\ lastOp.err = PlainErr(<<Code(ErrAuth)>>)
    /\ lastStatus = ErrAuth

\* ------------------------------------------------------------ conversation
Failed == lastOp.err # NilErr
\* The native code chain inspection finds in the returned error, 0 if none.
ErrCode == IF errors_As(lastOp.err.err).ok
           THEN errors_As(lastOp.err.err).code ELSE 0
NativeCalls ==
    Cardinality({i \in 1..Len(lastOp.events) : lastOp.events[i].e = "startConv"})
AllStringRequests ==
    \A i \in 1..Len(lastOp.requests) :
        lastOp.requests[i].type = "StringConvRequest"

\* C12: StartConvMulti with no request, or with more requests than the native
\* maximum, fails before any native call: the conversation pointer is not
\* looked up, the native conversation function is not called, no buffer is
\* allocated and no response is returned.
C12_BadLengthFailsFirst ==
    IsCall("StartConvMulti")
    /\ (Len(lastOp.requests) = 0 \/ Len(lastOp.requests) > maxNumMsg)
    => /\ Failed
       /\ ~HasEvent("getConv")
       /\ NativeCalls = 0 /\ lastOp.sent = <<>>
       /\ lastOp.bufs = <<>>
       /\ lastOp.responses = <<>>

\* A batch of one request more than the maximum, on a transaction that has a
\* conversation handler.
C12_Witness ==
    /\ IsCall("StartConvMulti") /\ Len(lastOp.requests) = maxNumMsg + 1
    /\ ConversationHandler.set /\ Failed

C12_WitnessEmpty ==
    /\ IsCall("StartConvMulti") /\ lastOp.requests = <<>>
    /\ ConversationHandler.set /\ Failed

\* C13: a batch is all or nothing: whenever StartConvMulti returns an error
\* the response list is empty, never a prefix of the batch; and when the
\* native conversation function returns a code other than success, the
\* returned error carries that code.
C13_BatchAtomic ==
    IsCall("StartConvMulti") =>
        /\ Failed => lastOp.responses = <<>>
        /\ NativeCalls > 0 /\ lastOp.ret # success
           => Failed /\ ErrCode = lastOp.ret

\* An unsupported style met while walking the responses, after the first
\* response was converted.
C13_Witness ==
    /\ IsCall("StartConvMulti") /\ Failed /\ lastOp.responses = <<>>
    /\ NativeCalls = 1 /\ lastOp.ret = success
    /\ Len(lastOp.requests) > 1
    /\ lastOp.requests[1].style \in TextStyles

C13_WitnessNativeFailure ==
    /\ IsCall("StartConvMulti") /\ NativeCalls = 1
    /\ lastOp.ret = ErrBuf /\ ErrCode = ErrBuf /\ lastOp.responses = <<>>

\* C14: for a batch of 1 to the native maximum of string requests on a
\* transaction with a conversation function, StartConvMulti calls the native
\* conversation function exactly once, with all the messages in the order of
\* the requests, each message holding its request's style and prompt.
C14_OneNativeCall ==
    IsCall("StartConvMulti") /\ ConversationHandler.set
    /\ Len(lastOp.requests) \in 1..maxNumMsg /\ AllStringRequests
    => /\ NativeCalls = 1
       /\ lastOp.sent =
            <<[i \in 1..Len(lastOp.requests) |->
                [msg_style |-> lastOp.requests[i].style,
                 msg |-> CString(lastOp.requests[i].prompt)]]>>

\* A batch of three requests with different prompts, and the longest batch.
C14_Witness ==
    /\ IsCall("StartConvMulti") /\ ConversationHandler.set
    /\ Len(lastOp.requests) = 3 /\ AllStringRequests
    /\ lastOp.requests[1].prompt # lastOp.requests[2].prompt
    /\ lastOp.requests[2].style # lastOp.requests[3].style
    /\ NativeCalls = 1 /\ Len(lastOp.sent[1]) = 3

C14_WitnessLongest ==
    /\ IsCall("StartConvMulti") /\ Len(lastOp.requests) = maxNumMsg
    /\ NativeCalls = 1 /\ Len(lastOp.sent[1]) = maxNumMsg

\* C15: when StartConvMulti succeeds it returns as many responses as there
\* were requests, and response i has the style of request i.
C15_ResponsePerRequest ==
    IsCall("StartConvMulti") /\ ~Failed
    => /\ Len(lastOp.responses) = Len(lastOp.requests)
       /\ \A i \in 1..Len(lastOp.requests) :
            lastOp.responses[i].style = lastOp.requests[i].style

\* A successful batch of requests of different styles.
C15_Witness ==
    /\ IsCall("StartConvMulti") /\ ~Failed
    /\ Len(lastOp.requests) = 3 /\ Len(lastOp.responses) = 3
    /\ lastOp.requests[2].style # lastOp.requests[3].style

\* A conversation of a single request with a text style.
SingleTextConv ==
    /\ \/ IsCall("StartConv")
          /\ lastOp.requests[1].type = "StringConvRequest"
       \/ IsCall("StartStringConv")
       \/ IsCall("StartStringConvf")
    /\ lastOp.style \in TextStyles

\* C16: a conversation of a single request with a text style and the prompt
\* p that succeeds returns one response, of the requested style, whose text
\* is what the registered conversation handler returns for that style and p.
C16_HandlerReply ==
    SingleTextConv /\ ~Failed
    => /\ Len(lastOp.responses) = 1
       /\ lastOp.responses[1].style = lastOp.style
       /\ lastOp.responses[1].response =
             RespondPAM(ConversationHandler, lastOp.style, lastOp.prompt).r

\* C17: StartStringConv and StartStringConvf with the binary style fail with
\* the "conversation error" code whatever the conversation handler supports,
\* without looking the conversation pointer up and without calling the
\* native conversation function.
C17_BinaryRefused ==
    (IsCall("StartStringConv") \/ IsCall("StartStringConvf"))
    /\ lastOp.style = BinaryPrompt
    => /\ Failed /\ ErrCode = ErrConv
       /\ ~HasEvent("getConv")
       /\ NativeCalls = 0 /\ lastOp.sent = <<>>

\* A binary prompt on a transaction whose handler answers binary prompts.
C17_Witness ==
    /\ IsCall("StartStringConv") /\ lastOp.style = BinaryPrompt
    /\ ConversationHandler.set /\ ConversationHandler.binary
    /\ ErrCode = ErrConv

C17_WitnessFormatted ==
    /\ IsCall("StartStringConvf") /\ lastOp.style = BinaryPrompt
    /\ ConversationHandler.set /\ ~ConversationHandler.binary
    /\ ErrCode = ErrConv

\* C18: when the lookup of the conversation pointer succeeds and yields no
\* conversation function, StartConvMulti fails with the "conversation error"
\* code and does not call the native conversation function.
C18_NoConvFunction ==
    IsCall("StartConvMulti") /\ HasEvent("getConv")
    /\ ~ConversationHandler.set /\ RetData = success
    => /\ Failed /\ ErrCode = ErrConv
       /\ NativeCalls = 0 /\ lastOp.sent = <<>>

C18_Witness ==
    /\ IsCall("StartConvMulti") /\ HasEvent("getConv")
    /\ ~ConversationHandler.set /\ RetData = success
    /\ Len(lastOp.requests) = 2 /\ AllStringRequests
    /\ ErrCode = ErrConv

\* C19: whatever way StartConvMulti returns, every native buffer allocated
\* for the request array and every native buffer of the response array has
\* been freed exactly once.
C19_BuffersFreedOnce ==
    IsCall("StartConvMulti") =>
        \A i \in 1..Len(lastOp.bufs) : lastOp.bufs[i].frees = 1

BufKinds(k) == {i \in 1..Len(lastOp.bufs) : lastOp.bufs[i].kind = k}

\* A successful batch of three: the message array, three prompts, the
\* response array and three responses.
C19_Witness ==
    /\ IsCall("StartConvMulti") /\ ~Failed /\ Len(lastOp.requests) = 3
    /\ Cardinality(BufKinds("cMessages")) = 1
    /\ Cardinality(BufKinds("prompt")) = 3
    /\ Cardinality(BufKinds("cResponses")) = 1
    /\ Cardinality(BufKinds("resp")) = 3

\* The native function fails on the second message, after it answered the
\* first.
C19_WitnessNativeFailure ==
    /\ IsCall("StartConvMulti") /\ NativeCalls = 1 /\ lastOp.ret = ErrConv
    /\ Cardinality(BufKinds("prompt")) = 2
    /\ Cardinality(BufKinds("resp")) = 1

\* A request of an unsupported type after two string requests.
C19_WitnessUnsupportedType ==
    /\ IsCall("StartConvMulti") /\ Len(lastOp.requests) = 3
    /\ lastOp.requests[3].type # "StringConvRequest"
    /\ NativeCalls = 0
    /\ Cardinality(BufKinds("prompt")) = 2

\* An unsupported style met while walking three responses.
C19_WitnessUnsupportedStyle ==
    /\ IsCall("StartConvMulti") /\ Failed
    /\ NativeCalls = 1 /\ lastOp.ret = success
    /\ Cardinality(BufKinds("resp")) = 3

ModuleOps == {"InvokeHandler", "SetData", "GetData", "GetUser", "StartConv",
              "StartConvMulti", "StartStringConv", "StartStringConvf"}
HasCause(text) ==
    \E i \in 1..Len(lastOp.err.err) : lastOp.err.err[i] = Cause(text)

\* C20: every error a module-side operation returns is or wraps a native
\* code: inspecting the chain of the returned error always finds one, also
\* when the failure is one the operation raised itself ("no requests
\* defined", "too many requests", "impossible to find conv handler",
\* "unsupported conversation type", "not enough values returned").
C20_ErrorsCarryCode ==
    lastOp.op \in ModuleOps /\ ~panicked /\ Failed
    => errors_As(lastOp.err.err).ok

C20_Witness ==
    /\ IsCall("StartConvMulti") /\ HasCause("no requests defined")
    /\ errors_As(lastOp.err.err).ok

C20_WitnessTooMany ==
    /\ IsCall("StartConvMulti") /\ HasCause("too many requests")
    /\ errors_As(lastOp.err.err).ok

C20_WitnessNoConv ==
    /\ IsCall("StartConv") /\ HasCause("impossible to find conv handler")
    /\ errors_As(lastOp.err.err).ok

C20_WitnessUnsupported ==
    /\ IsCall("StartConvMulti") /\ HasCause("unsupported conversation type")
    /\ errors_As(lastOp.err.err).ok

C20_WitnessInvoke ==
    /\ IsCall("InvokeHandler") /\ Failed
    /\ lastOp.handler.ret = <<Cause("not implemented")>>

C20_WitnessSetData == IsCall("SetData") /\ Failed /\ lastOp.data # NilData

C20_WitnessGetData == IsCall("GetData") /\ Failed /\ ErrCode = ErrNoModuleData

C20_WitnessGetUser == IsCall("GetUser") /\ Failed /\ ErrCode = ErrBuf

C20_WitnessBinary ==
    /\ IsCall("StartStringConv") /\ Failed
    /\ HasCause("binary style is not supported")

\* ------------------------------------------------------------ C21
StartCalled == IsCall("Start") \/ IsCall("StartConfDir")
NativeStartCalled == HasEvent("pam_start") \/ HasEvent("pam_start_confdir")
NoConfdirSupport == lastOp.op = "StartConfDir" /\ ~libpam.confdir
NoBinarySupport == lastOp.binary /\ ~libpam.binary
\* C21: Start and StartConfDir fail with a system error, before the native
\* start call and before a cgo handle is made for the handler, when
\* StartConfDir is used on a framework without pam_start_confdir or the
\* handler is a binary one on a platform without the binary prompt; a
\* handler without the binary capability is not refused for the latter.
C21_FailFast ==
    StartCalled =>
        /\ (NoConfdirSupport \/ NoBinarySupport) =>
              /\ lastOp.terr.kind = "TransactionError"
              /\ lastOp.terr.status = ErrSystem
              /\ lastOp.terr.cause.k = "text"
              /\ ~NativeStartCalled
              /\ libpam.starts = 0
              /\ ~HasEvent("NewHandle")
              /\ appHandles = <<>>
              /\ transaction = NilTransaction
        /\ (~lastOp.binary /\ ~NoConfdirSupport) =>
              /\ NativeStartCalled
              /\ lastOp.terr.cause.k # "text"

C21_Witness ==
    /\ IsCall("StartConfDir")
    /\ NoConfdirSupport
    /\ lastOp.confDir # ""
    /\ lastOp.terr.status = ErrSystem

C21_WitnessBinary ==
    /\ IsCall("Start")
    /\ NoBinarySupport
    /\ lastOp.terr.status = ErrSystem

C21_WitnessPlain ==
    /\ IsCall("Start")
    /\ ~lastOp.binary
    /\ ~libpam.binary
    /\ lastOp.terr = NilError
    /\ transaction.state = "live"

\* ------------------------------------------------------------ C22
\* C22: the finalizer of a Transaction ends the native session with the
\* status the register holds when it runs, which is the one the latest
\* operation stored and not the one of Start, and deletes the cgo handle of
\* the conversation handler only after that.
C22_TeardownWithLastStatus ==
    IsCall("transactionFinalizer") =>
        /\ lastOp.events = <<Ev("pam_end", lastOp.before),
                             Ev("Delete", lastOp.token)>>
        /\ libpam.ends[Len(libpam.ends)].status = lastOp.before
        /\ ~HandleValid(appHandles, lastOp.token)

C22_Witness ==
    /\ IsCall("transactionFinalizer")
    /\ libpam.ends = <<[handle |-> 1, status |-> ErrAuth]>>
    /\ lastOp.before = ErrAuth

\* ------------------------------------------------------------ C23
\* C23: the native session of a Transaction is ended once at most and the
\* cgo handle of its conversation handler is deleted once at most, both
\* exactly once when the finalizer has run; until then the handle is valid,
\* so that every conversation callback finds the handler.
C23_TeardownOnce ==
    /\ ~panicked
    /\ Len(libpam.ends) <= 1
    /\ transaction.state \in {"live", "failed"} =>
          /\ libpam.ends = <<>>
          /\ HandleValid(appHandles, transaction.c)
    /\ transaction.state = "finalized" =>
          /\ Len(libpam.ends) = 1
          /\ libpam.ends[1].handle = transaction.handle
          /\ ~HandleValid(appHandles, transaction.c)
    /\ IsCall("transactionFinalizer") => EventCount("Delete", lastOp.token) = 1
    /\ \A i \in 1..Len(lastOp.events) :
          lastOp.events[i].e = "cbPAMConv" =>
              /\ lastOp.events[i].h = transaction.c
              /\ HandleValid(appHandles, transaction.c)

C23_Witness ==
    /\ transaction.state = "finalized"
    /\ transaction.handle = 1
    /\ Len(libpam.ends) = 1
    /\ Idle

C23_WitnessCallback ==
    /\ IsCall("Authenticate")
    /\ HasEvent("cbPAMConv")
    /\ HandleValid(appHandles, transaction.c)

\* ------------------------------------------------------------ C24
ApplicationOps ==
    {"Authenticate", "SetCred", "AcctMgmt", "ChangeAuthTok", "OpenSession",
     "CloseSession", "SetItem", "GetItem", "PutEnv", "GetEnv", "GetEnvList"}
\* C24: the status register of a Transaction is the success code before
\* Start, and after each operation of the application API it is the native
\* result of that operation, the success code when it succeeded.
C24_RegisterUpdated ==
    /\ transaction.state = "none" => Transaction_Status(transaction) = success
    /\ (lastOp.op \in ApplicationOps /\ ~panicked) =>
          Transaction_Status(transaction) = lastOp.status

\* ------------------------------------------------------------ C25
\* The message of the embedded error of a TransactionError.
CauseText(e) ==
    IF e.cause.k = "text" THEN <<Text(e.cause.s)>>
    ELSE IF e.cause.k = "transaction" THEN Transaction_Error(transaction)
    ELSE <<>>
\* C25: the text of a TransactionError is its cause, ": " and the native
\* message of its code, and the native message alone without a cause.
C25_ErrorText ==
    (lastOp.terr.kind = "TransactionError" /\ lastOp.text # <<>>) =>
        lastOp.text =
            IF lastOp.terr.cause.k = "nil"
            THEN <<Strerror(lastOp.terr.status)>>
            ELSE CauseText(lastOp.terr)
                 \o <<Text(": "), Strerror(lastOp.terr.status)>>

\* ------------------------------------------------------------ C26
\* the native return codes: Success .. Incomplete
ReturnCodes == success..Incomplete
RECURSIVE ChainCodes(_)
ChainCodes(chain) ==
    IF chain = <<>> THEN {}
    ELSE (IF Head(chain).k = "code" THEN {Head(chain).c} ELSE {})
         \cup ChainCodes(Tail(chain))
\* C26: the status registers and the errors returned hold native return
\* codes only: a value outside the enumeration that the native start call
\* returns, or that a handler's error carries, becomes the system error.
C26_CodesInEnumeration ==
    /\ Transaction_Status(transaction) \in ReturnCodes
    /\ lastStatus \in ReturnCodes
    /\ lastOp.terr.kind = "TransactionError" =>
          lastOp.terr.status \in ReturnCodes
    /\ ChainCodes(lastOp.err.err) \subseteq ReturnCodes

\* ------------------------------------------------------------ C27
\* C27: whatever the interleaving of the goroutines, the status register and
\* every value read from it is the success code it started with or a value
\* that one operation stored, whole; when no operation is between its native
\* call and its return, the register is the value of the latest store.
C27_LastWriterWins ==
    /\ Transaction_Status(transaction) \in threads.stored \cup {success}
    /\ threads.read \in threads.stored \cup {success}
    /\ (threads.stored # {}
        /\ \A th \in Threads : threads.pc[th] = "ready") =>
           Transaction_Status(transaction) = threads.last

\* Two operations are in flight at once, one has stored a failure and the
\* other a value of another width, and the register is read afterwards.
C27_Witness ==
    /\ threads.stored = {ErrAuth, -1}
    /\ threads.last = -1
    /\ threads.reads
    /\ threads.read = -1
    /\ \E th \in Threads : threads.pc[th] = "called"

C27_WitnessAllDone ==
    /\ Cardinality(threads.stored) >= 2
    /\ \A th \in Threads : threads.pc[th] = "ready"
    /\ threads.read = threads.last

\* ------------------------------------------------------------ C28
\* C28: an entry point of the generated module returns a native code for
\* every outcome: 0 when the handler returns no error, the code of the
\* error when its chain has one, the system error for another error, and,
\* without calling a handler, "no module data" when no handler object is set.
C28_EntryReturnsCode ==
    lastOp.op = "pam_sm" =>
        /\ ~panicked
        /\ ~pamModuleHandler =>
              /\ lastOp.ret = ErrNoModuleData
              /\ lastOp.events = <<>>
        /\ (pamModuleHandler /\ ~lastOp.handler.set) => lastOp.ret = ErrIgnore
        /\ (pamModuleHandler /\ lastOp.handler.set) =>
              /\ lastOp.events = <<Ev(lastOp.func, lastOp.flags)>>
              /\ lastOp.ret =
                    IF lastOp.handler.ret = <<>> THEN 0
                    ELSE IF errors_As(lastOp.handler.ret).ok
                    THEN errors_As(lastOp.handler.ret).code
                    ELSE ErrSystem

\* ------------------------------------------------------------ C29
\* the flags with the silent bit flipped
ToggleSilent(flags) ==
    IF SilentSet(flags) THEN flags - Silent ELSE flags + Silent
\* C29: handlePamCall writes a diagnostic exactly when the handler returned
\* an error and the silent bit of the flags is not set, and returns the same
\* code with and without that bit.
C29_SilentSuppressesOutput ==
    IsCall("pam_sm") =>
        /\ lastOp.stderr # <<>> <=>
              (lastOp.handler.ret # <<>> /\ ~SilentSet(lastOp.flags))
        /\ lastOp.ret =
              handlePamCall(EntryMachine, pamModuleHandler, lastOp.handler,
                            ToggleSilent(lastOp.flags), lastOp.func).ret
        /\ lastOp.ret =
              IF lastOp.handler.ret = <<>> THEN 0
              ELSE IF errors_As(lastOp.handler.ret).ok
              THEN errors_As(lastOp.handler.ret).code
              ELSE ErrSystem

C29_Witness ==
    /\ IsCall("pam_sm")
    /\ SilentSet(lastOp.flags)
    /\ lastOp.handler.ret # <<>>
    /\ lastOp.stderr = <<>>
    /\ lastOp.ret = ErrAuth

C29_WitnessDiagnostic ==
    /\ IsCall("pam_sm")
    /\ ~SilentSet(lastOp.flags)
    /\ lastOp.flags # 0
    /\ lastOp.stderr # <<>>
    /\ lastOp.ret = ErrSystem

C29_WitnessSuccess ==
    /\ IsCall("pam_sm")
    /\ ~SilentSet(lastOp.flags)
    /\ lastOp.handler.ret = <<>>
    /\ lastOp.stderr = <<>>
    /\ lastOp.ret = 0

\* ------------------------------------------------------------ C30
\* C30: when StartConvMulti returns, the status register is the success code
\* if it returned no error, and else the native code the returned error
\* carries, which is the conversation error for a failure that had no
\* native code of its own: the failure is recorded and returned.
C30_ConvRecorded ==
    IsCall("StartConvMulti") =>
        /\ EventCount("store", lastStatus) = 1
        /\ ~Failed => lastStatus = success
        /\ Failed =>
              /\ errors_As(lastOp.err.err).ok
              /\ lastStatus = errors_As(lastOp.err.err).code
              /\ lastStatus # success
              /\ (\E i \in 1..Len(lastOp.err.err) : lastOp.err.err[i].k = "cause")
                    => lastStatus = ErrConv

\* a failure without a native code of its own, after a success
C30_Witness ==
    /\ IsCall("StartConvMulti")
    /\ lastOp.requests = <<>>
    /\ lastOp.before = success
    /\ lastStatus = ErrConv
    /\ ErrCode = ErrConv

\* a native failure keeps its code
C30_WitnessNative ==
    /\ IsCall("StartConvMulti")
    /\ Failed
    /\ lastStatus = ErrBuf

\* a success after a failure
C30_WitnessSuccess ==
    /\ IsCall("StartConvMulti")
    /\ ~Failed
    /\ lastOp.before # success
    /\ lastStatus = success

\* ------------------------------------------------------------ C31
\* C31: GetData takes nothing out of the store: a call leaves the entries of
\* the keys and the handle table as they were and runs no cleanup hook, so a
\* GetData(k) that follows a GetData(k) returns the same value and error, and
\* on a key holding a value each call returns that value.
C31_GetDataKeepsStore ==
    [][(lastOp'.op = "GetData") =>
          /\ moduleData' = moduleData
          /\ handles' = handles
          /\ cleanupCalls' = cleanupCalls
          /\ \A i \in 1..Len(lastOp'.events) :
                lastOp'.events[i].e \notin {"cleanup", "alloc", "install"}
          /\ (lastOp'.again /\ ~panicked') =>
                /\ lastOp'.value = lastOp.value
                /\ lastOp'.err = lastOp.err
          /\ (~panicked' /\ lastOp'.err = NilErr) =>
                /\ HandleValid(handles', moduleData'[lastOp'.key])
                /\ lastOp'.value = HandleValue(handles', moduleData'[lastOp'.key])]_vars

\* a second GetData(k) in a row returns the value the key holds
C31_Witness ==
    /\ IsCall("GetData")
    /\ lastOp.again
    /\ lastOp.err = NilErr
    /\ lastOp.value # NilData
    /\ lastOp.value = lastSet[lastOp.key].data
    /\ HandleValid(handles, moduleData[lastOp.key])

\* ------------------------------------------------------------ C33
\* the handle the latest SetData call made for its value
NewestHandle == Len(handles)
\* C33: when SetData of a value returns an error because the native set call
\* failed, the handle made for the value is installed under the key or has
\* been deleted.
C33_NoLeakOnFailure ==
    (IsCall("SetData") /\ lastOp.data # NilData /\ Failed) =>
        /\ HasEvent("alloc")
        /\ \/ moduleData[lastOp.key] = NewestHandle
           \/ ~HandleValid(handles, NewestHandle)

\* ------------------------------------------------------------ C32
\* C32: the error a failed operation of a Transaction returned keeps the
\* native code of that failure as its status, and its message, while later
\* operations of any goroutine store to the status register.
C32_ErrorKeepsCode ==
    \A th \in Threads :
        threads.held[th].err # NilError =>
            /\ Error_Status(threads.held[th].err, transaction)
                  = threads.held[th].code
            /\ Error_String(threads.held[th].err, transaction)
                  = ReturnType_Error(threads.held[th].code)

\* ------------------------------------------------------------ C34
\* the conversation handler the dispatcher finds behind the handle
Dispatched == HandleValue(appHandles, transaction.c)
\* C34: cbPAMConv returns a response buffer exactly when it returns the
\* success code. A handler that fails gives no buffer and the conversation
\* error on a text style, "conversation again" for a binary handler on a
\* binary message; a binary message for a handler that is not a binary one
\* gives no buffer and "authentication info unavailable", and the handler
\* is not called.
C34_BufferIffSuccess ==
    IsCall("cbPAMConv") =>
        /\ (lastOp.out # 0) <=> (lastOp.ret = success)
        /\ lastOp.out # 0 =>
              /\ lastOp.out \in 1..Len(lastOp.bufs)
              /\ lastOp.bufs[lastOp.out].kind = "resp"
              /\ lastOp.bufs[lastOp.out].frees = 0
        /\ (lastOp.style # BinaryPrompt /\ lastOp.asked # <<>>
            /\ lastOp.asked[1].err # <<>>) =>
              /\ lastOp.out = 0
              /\ lastOp.ret = ErrConv
        /\ lastOp.style # BinaryPrompt => Len(lastOp.asked) = 1
        /\ (lastOp.style = BinaryPrompt /\ Dispatched.binary
            /\ Dispatched.binaryErr) =>
              /\ lastOp.out = 0
              /\ lastOp.ret = ErrConvAgain
        /\ (lastOp.style = BinaryPrompt /\ Dispatched.binary
            /\ ~Dispatched.binaryErr) =>
              /\ lastOp.out # 0
              /\ lastOp.bufs[lastOp.out].bytes = Dispatched.binaryReply
        /\ (lastOp.style = BinaryPrompt /\ ~Dispatched.binary) =>
              /\ lastOp.out = 0
              /\ lastOp.ret = ErrAuthinfoUnavail
              /\ lastOp.asked = <<>>

\* a text handler fails
C34_Witness ==
    /\ IsCall("cbPAMConv")
    /\ lastOp.style \in TextStyles
    /\ lastOp.asked # <<>>
    /\ lastOp.asked[1].err # <<>>
    /\ lastOp.ret = ErrConv
    /\ lastOp.out = 0

\* a text handler answers, here with the empty string
C34_WitnessReply ==
    /\ IsCall("cbPAMConv")
    /\ lastOp.style = PromptEchoOff
    /\ lastOp.ret = success
    /\ lastOp.out # 0
    /\ lastOp.bufs[lastOp.out].bytes = <<NUL>>

\* a binary handler fails on a binary message
C34_WitnessBinaryFails ==
    /\ IsCall("cbPAMConv")
    /\ lastOp.style = BinaryPrompt
    /\ lastOp.ret = ErrConvAgain
    /\ lastOp.out = 0

\* a binary message for a handler that is not a binary one
C34_WitnessNotBinary ==
    /\ IsCall("cbPAMConv")
    /\ lastOp.style = BinaryPrompt
    /\ ~Dispatched.binary
    /\ lastOp.ret = ErrAuthinfoUnavail

====
